---- MODULE Spec2Model ----
(***************************************************************************)
(* A model of webgpu-gerstner-waves: the per-frame uniform packing of the  *)
(* draw callback (index.ts), the orbit controls (controls.ts) and the      *)
(* Gerstner evaluator and shading stage of gerstner-waves.wgsl.            *)
(*                                                                         *)
(* Numbers.  The shader's arithmetic is modelled over exact rationals      *)
(* <<n, d>> (d > 0, lowest terms): + - * / are the real operations the     *)
(* expressions denote.  sqrt, sin and cos are irrational, so they are      *)
(* tabulated: Sqrt rounds down to a multiple of 1/100, Sin and Cos read a  *)
(* 12-entry table of exact points of the unit circle, indexed by the       *)
(* phase rounded to the nearest twelfth of the period 2*pi.  The table     *)
(* keeps sin(0) = 0, cos(0) = 1, sin^2 + cos^2 = 1 and the signs of the    *)
(* quadrants.  The CPU side stores JavaScript doubles into Float32Array:   *)
(* that conversion is modelled on binary mantissas (ToDouble, ToFloat32).  *)
(***************************************************************************)
EXTENDS Integers, Sequences, FiniteSets, TLC

VARIABLES
    \* ---- the page: main() and the animation frame loop (index.ts) ----
    mainPc,                 \* position of main(): see MainInit
    drawPc,                 \* position inside the draw callback, "idle" outside
    rafPending,             \* number of draw callbacks requested and not yet run
    frame,                  \* number of draw callbacks started
    now,                    \* Date.now(), in ms
    startTime,              \* const startTime = Date.now()
    elapsedTime,            \* let elapsedTime (a double, held as the exact ms count / 1000)
    controls,               \* the Controls object: x, y, isMouseDown
    waves,                  \* the `waves` array of the draw callback
    locals,                 \* the draw callback's locals of the running frame
    uniformBuffer,          \* GPU buffer, byte offset -> byte
    wavesParametersBuffer,  \* GPU buffer, byte offset -> byte
    queueLog,               \* device.queue operations issued so far in this frame
    \* ---- one evaluation of the shader stages (gerstner-waves.wgsl) ----
    stage,                  \* "input", "vertex", "fragment"
    attrs,                  \* vertex attributes: position, normal, uv
    uniforms,               \* the Uniforms the shader reads
    waves_uniforms,         \* the GerstnerWavesUniforms the shader reads
    vout,                   \* VertexOutput of vertex_main
    fin,                    \* the interpolated VertexOutput handed to fragment_main
    fout,                   \* what fragment_main computed
    \* ---- a draw call's vertex invocations, run by any number of workers ----
    invocations,            \* vertex index -> the invocation's attributes, locals, output
    \* ---- the plane geometry under construction (geometries.ts) ----
    plane                   \* the Plane object and the constructor's position

pageVars == <<mainPc, drawPc, rafPending, frame, now, startTime, elapsedTime,
              controls, waves, locals, uniformBuffer, wavesParametersBuffer, queueLog>>
shaderVars == <<stage, attrs, uniforms, waves_uniforms, vout, fin, fout, invocations>>
geometryVars == <<plane>>
vars == <<pageVars, shaderVars, geometryVars>>

(***************************************************************************)
(* Exact rationals.                                                        *)
(***************************************************************************)
Abs(x) == IF x < 0 THEN -x ELSE x

RECURSIVE GCD(_, _)
GCD(a, b) == IF b = 0 THEN a ELSE GCD(b, a % b)

Rat(n, d) ==
    LET s == IF d < 0 THEN -1 ELSE 1
        g == GCD(Abs(n), Abs(d))
    IN  <<(s * n) \div g, (s * d) \div g>>

R(n) == <<n, 1>>
RZero == <<0, 1>>
ROne == <<1, 1>>
RNeg(a) == <<-a[1], a[2]>>
RIsZero(a) == a[1] = 0

RMul(a, b) ==
    LET g1 == GCD(Abs(a[1]), b[2])
        g2 == GCD(Abs(b[1]), a[2])
    IN  IF a[1] = 0 \/ b[1] = 0 THEN RZero
        ELSE <<(a[1] \div g1) * (b[1] \div g2), (a[2] \div g2) * (b[2] \div g1)>>

RInv(a) == IF a[1] < 0 THEN <<-a[2], -a[1]>> ELSE <<a[2], a[1]>>
RDiv(a, b) == RMul(a, RInv(b))

RAdd(a, b) ==
    LET g == GCD(a[2], b[2])
        l == (a[2] \div g) * b[2]
    IN  Rat(a[1] * (l \div a[2]) + b[1] * (l \div b[2]), l)

RSub(a, b) == RAdd(a, RNeg(b))

RLe(a, b) == RSub(a, b)[1] <= 0
RLt(a, b) == RSub(a, b)[1] < 0
RFloor(a) == a[1] \div a[2]

\* The largest m with m * m <= v, by bisection on lo..hi.
RECURSIVE ISqrtIn(_, _, _)
ISqrtIn(v, lo, hi) ==
    IF lo >= hi THEN lo
    ELSE LET mid == (lo + hi + 1) \div 2
         IN  IF mid * mid <= v THEN ISqrtIn(v, mid, hi) ELSE ISqrtIn(v, lo, mid - 1)

\* sqrt(a), rounded down to a multiple of 1/100.
Sqrt(a) == Rat(ISqrtIn(RFloor(RMul(a, R(10000))), 0, 40000), 100)

\* WGSL `let pi = 3.14159` and `let gravity = 9.8`.
pi == <<314159, 100000>>
gravity == <<49, 5>>

\* cos at the twelfths of a turn, in fifths: exact points of the unit circle.
CosTable == <<5, 4, 3, 0, -3, -4, -5, -4, -3, 0, 3, 4>>

\* The twelfth of the period 2*pi nearest to the angle x.
TurnBin(x) ==
    LET n == Len(CosTable)
        t == RMul(x, RDiv(R(n), RMul(R(2), pi)))
    IN  RFloor(RAdd(t, <<1, 2>>)) % n

Cos(x) == Rat(CosTable[TurnBin(x) + 1], 5)
Sin(x) == Rat(CosTable[((TurnBin(x) + 9) % Len(CosTable)) + 1], 5)

(***************************************************************************)
(* JavaScript numbers and Float32Array elements.  A double is a sign, an   *)
(* exponent e and a 53-bit mantissa 2^29 * hi + lo with 2^23 <= hi < 2^24: *)
(* the value is (2^29 * hi + lo) * 2^(e - 52).  A float32 has the 24-bit   *)
(* mantissa m: the value is m * 2^(e - 23).  Zero has mantissa 0.          *)
(***************************************************************************)
DoubleZero == [s |-> 0, e |-> 0, hi |-> 0, lo |-> 0]
Float32Zero == [s |-> 0, e |-> 0, m |-> 0]

\* Scale n / d by powers of two until d <= n < 2 * d: <<n, d, exponent>>.
RECURSIVE Normalise2(_, _, _)
Normalise2(n, d, e) ==
    IF n >= 2 * d THEN Normalise2(n, 2 * d, e + 1)
    ELSE IF n < d THEN Normalise2(2 * n, d, e - 1)
    ELSE <<n, d, e>>

\* The next `count` bits of rem / d (rem < d): <<bits as a number, remainder>>.
RECURSIVE FractionBits(_, _, _, _)
FractionBits(rem, d, count, acc) ==
    IF count = 0 THEN <<acc, rem>>
    ELSE IF 2 * rem >= d THEN FractionBits(2 * rem - d, d, count - 1, 2 * acc + 1)
    ELSE FractionBits(2 * rem, d, count - 1, 2 * acc)

\* The double nearest to the rational a (round to nearest, ties to even).
ToDouble(a) ==
    IF a[1] = 0 THEN DoubleZero
    ELSE LET nd == Normalise2(Abs(a[1]), a[2], 0)
             h == FractionBits(nd[1] - nd[2], nd[2], 23, 1)
             l == FractionBits(h[2], nd[2], 29, 0)
             g == FractionBits(l[2], nd[2], 1, 0)
             up == g[1] = 1 /\ (g[2] # 0 \/ l[1] % 2 = 1)
             lo == IF up THEN l[1] + 1 ELSE l[1]
             hi == IF lo = 2^29 THEN h[1] + 1 ELSE h[1]
         IN  [s |-> IF a[1] < 0 THEN 1 ELSE 0,
              e |-> IF hi = 2^24 THEN nd[3] + 1 ELSE nd[3],
              hi |-> IF hi = 2^24 THEN 2^23 ELSE hi,
              lo |-> IF lo = 2^29 THEN 0 ELSE lo]

\* Storing a number into a Float32Array: the float32 nearest to the double
\* (round to nearest, ties to even).
ToFloat32(x) ==
    IF x.hi = 0 THEN [s |-> x.s, e |-> 0, m |-> 0]
    ELSE LET up == x.lo > 2^28 \/ (x.lo = 2^28 /\ x.hi % 2 = 1)
             m == IF up THEN x.hi + 1 ELSE x.hi
         IN  [s |-> x.s,
              e |-> IF m = 2^24 THEN x.e + 1 ELSE x.e,
              m |-> IF m = 2^24 THEN 2^23 ELSE m]

\* Reading a Float32Array element as a number: exact.
Float32ToDouble(f) == [s |-> f.s, e |-> f.e, hi |-> f.m, lo |-> 0]

\* A significand shifted right by d bits; the lowest bit kept is sticky.
ShiftSticky(sig, d) ==
    IF d = 0 THEN sig
    ELSE IF d >= 27 THEN (IF sig = 0 THEN 0 ELSE 1)
    ELSE LET q == sig \div 2^d
         IN  IF sig % 2^d = 0 THEN q ELSE (q - (q % 2)) + 1

\* A significand below 2^26 shifted left until it is not: <<significand, exponent>>.
RECURSIVE NormaliseLeft(_, _)
NormaliseLeft(sig, e) == IF sig >= 2^26 THEN <<sig, e>> ELSE NormaliseLeft(2 * sig, e - 1)

\* The float32 of a 27-bit significand (24 bits and 3 guard bits), rounded
\* to nearest, ties to even.
RoundSignificand(s, e, sig) ==
    LET m == sig \div 8
        r == sig % 8
        m1 == IF r > 4 \/ (r = 4 /\ m % 2 = 1) THEN m + 1 ELSE m
    IN  [s |-> s, e |-> IF m1 = 2^24 THEN e + 1 ELSE e, m |-> IF m1 = 2^24 THEN 2^23 ELSE m1]

\* x + y of two f32 values in the shader (normal numbers and zero).
F32Add(x, y) ==
    IF x.m = 0 /\ y.m = 0 THEN [s |-> IF x.s = 1 /\ y.s = 1 THEN 1 ELSE 0, e |-> 0, m |-> 0]
    ELSE IF x.m = 0 THEN y
    ELSE IF y.m = 0 THEN x
    ELSE LET xBig == x.e > y.e \/ (x.e = y.e /\ x.m >= y.m)
             big == IF xBig THEN x ELSE y
             small == IF xBig THEN y ELSE x
             X == big.m * 8
             Y == ShiftSticky(small.m * 8, big.e - small.e)
         IN  IF big.s = small.s
             THEN IF X + Y >= 2^27
                  THEN RoundSignificand(big.s, big.e + 1, ShiftSticky(X + Y, 1))
                  ELSE RoundSignificand(big.s, big.e, X + Y)
             ELSE IF X = Y THEN Float32Zero
             ELSE LET n == NormaliseLeft(X - Y, big.e)
                  IN  RoundSignificand(big.s, n[2], n[1])

\* A Float32Array element is a float32 made by ToFloat32, or an element that
\* gl-matrix computed into a Float32Array (a token naming it), or the zero a
\* new Float32Array is filled with.
ZeroFill == [zeroFill |-> TRUE]

\* A conversion that drops the low mantissa bits instead of rounding them.
Float32ArrayTruncated(x) == <<[s |-> x.s, e |-> x.e, m |-> x.hi]>>

\* new Float32Array([x]): one element.
Float32ArrayOf(x) == <<ToFloat32(x)>>

\* The bytes of a Float32Array: element v gives the four bytes <<v, 0..3>>.
BytesOf(arr) == [b \in 1..(4 * Len(arr)) |-> <<arr[((b - 1) \div 4) + 1], (b - 1) % 4>>]

(***************************************************************************)
(* Vectors and matrices of the shader (vec2, vec3, vec4, mat4x4; matrices  *)
(* are column-major sequences of 16 as in gl-matrix and WGSL).             *)
(***************************************************************************)
Vec2(x, y) == [x |-> x, y |-> y]
Vec3(x, y, z) == [x |-> x, y |-> y, z |-> z]
Vec4(x, y, z, w) == [x |-> x, y |-> y, z |-> z, w |-> w]

Dot2(a, b) == RAdd(RMul(a.x, b.x), RMul(a.y, b.y))
Scale2(a, s) == Vec2(RMul(a.x, s), RMul(a.y, s))
Add3(a, b) == Vec3(RAdd(a.x, b.x), RAdd(a.y, b.y), RAdd(a.z, b.z))
Vec3Zero == Vec3(RZero, RZero, RZero)

MatRow(m, r, v) ==
    RAdd(RAdd(RMul(m[r], v.x), RMul(m[4 + r], v.y)),
         RAdd(RMul(m[8 + r], v.z), RMul(m[12 + r], v.w)))

\* m * v for a column-major mat4x4 and a vec4.
MatMulVec(m, v) == Vec4(MatRow(m, 1, v), MatRow(m, 2, v), MatRow(m, 3, v), MatRow(m, 4, v))

MatMul(a, b) ==
    [i \in 1..16 |->
        LET r == ((i - 1) % 4) + 1
            c == (i - 1) \div 4
        IN  RAdd(RAdd(RMul(a[r], b[4 * c + 1]), RMul(a[4 + r], b[4 * c + 2])),
                 RAdd(RMul(a[8 + r], b[4 * c + 3]), RMul(a[12 + r], b[4 * c + 4])))]

IdentityMatrix == [i \in 1..16 |-> IF (i - 1) % 5 = 0 THEN ROne ELSE RZero]

\* mat4.rotateX(m, m, toRadian(-90)): cos = 0, sin = -1.
RotateXMinus90 ==
    [i \in 1..16 |->
        CASE i = 1 -> ROne
          [] i = 7 -> RNeg(ROne)
          [] i = 10 -> ROne
          [] i = 16 -> ROne
          [] OTHER -> RZero]

Translation(tx, ty, tz) ==
    [i \in 1..16 |->
        CASE i = 13 -> tx
          [] i = 14 -> ty
          [] i = 15 -> tz
          [] OTHER -> IdentityMatrix[i]]

\* new Plane(12, 12, 100, 100): width and height of the plane.
planeWidth == R(12)
planeHeight == R(12)

\* The model matrix of main(): rotateX(-90 deg), then translate to centre the plane.
modelMatrix ==
    MatMul(RotateXMinus90,
           Translation(RNeg(RDiv(planeWidth, R(2))), RNeg(RDiv(planeHeight, R(2))), RZero))

\* A primitive integer vector in the direction of v: the class of v / |v|.
Direction3(v) ==
    LET l == ((v.x[2] \div GCD(v.x[2], v.y[2])) * v.y[2])
        m == (l \div GCD(l, v.z[2])) * v.z[2]
        a == v.x[1] * (m \div v.x[2])
        b == v.y[1] * (m \div v.y[2])
        c == v.z[1] * (m \div v.z[2])
        g == GCD(GCD(Abs(a), Abs(b)), Abs(c))
    IN  <<a \div g, b \div g, c \div g>>

\* WGSL normalize(v) = v / length(v).  For the zero vector the quotient 0/0 has
\* no determinate value: unit is FALSE.  Otherwise the result has length 1 and
\* direction dir.
normalize(v) ==
    IF RIsZero(v.x) /\ RIsZero(v.y) /\ RIsZero(v.z)
    THEN [unit |-> FALSE, dir |-> <<0, 0, 0>>]
    ELSE [unit |-> TRUE, dir |-> Direction3(v)]

(***************************************************************************)
(* gerstner-waves.wgsl: vertex_main.  K is the shader's wave_numbers, the  *)
(* loop bound and the divisor of the steepness factor.                     *)
(***************************************************************************)
\* WGSL `let wave_numbers = 5`.
wave_numbers == 5

\* let wavevector_magnitude = 2.0 * pi / wave.length
wavevector_magnitude(wave) == RDiv(RMul(R(2), pi), wave.length)

\* let temporal_frequency = sqrt(gravity * wavevector_magnitude)
temporal_frequency(wave) == Sqrt(RMul(gravity, wavevector_magnitude(wave)))

\* steepness_factor without the division by the wave count.
steepness_factor_undivided(wave, K) ==
    RDiv(wave.steepness, RMul(wave.amplitude, wavevector_magnitude(wave)))

\* steepness_factor with the steepness left out of the numerator.
steepness_factor_without_steepness(wave, K) ==
    RDiv(ROne, RMul(RMul(wave.amplitude, wavevector_magnitude(wave)), R(K)))

\* let steepness_factor = wave.steepness / (wave.amplitude * wavevector_magnitude * f32(wave_numbers))
steepness_factor(wave, K) ==
    RDiv(wave.steepness, RMul(RMul(wave.amplitude, wavevector_magnitude(wave)), R(K)))

\* let pos = dot(wavevector, worldPosition.xz) - temporal_frequency * uniforms.elapsedTime + phase
\* with `let phase = 0.0` and wavevector = wave.direction * wavevector_magnitude.
WavePos(wave, worldPosition, time) ==
    LET wavevector == Scale2(wave.direction, wavevector_magnitude(wave))
        phase == RZero
    IN  RAdd(RSub(Dot2(wavevector, Vec2(worldPosition.x, worldPosition.z)),
                  RMul(temporal_frequency(wave), time)),
             phase)

\* An offset with sine and cosine exchanged.
WaveOffsetExchanged(wave, K, pos) ==
    Vec3(RMul(RMul(RMul(steepness_factor(wave, K), wave.direction.x), wave.amplitude), Cos(pos)),
         RMul(wave.amplitude, Sin(pos)),
         RMul(RMul(RMul(steepness_factor(wave, K), wave.direction.y), wave.amplitude), Cos(pos)))

\* offset.x, offset.z, offset.y of one wave.
WaveOffset(wave, K, pos) ==
    Vec3(RMul(RMul(RMul(steepness_factor(wave, K), wave.direction.x), wave.amplitude), Sin(pos)),
         RMul(wave.amplitude, Cos(pos)),
         RMul(RMul(RMul(steepness_factor(wave, K), wave.direction.y), wave.amplitude), Sin(pos)))

\* normal.x, normal.z, normal.y of one wave.
WaveNormal(wave, K, pos) ==
    Vec3(RMul(RMul(RMul(Sin(pos), wave.amplitude), wavevector_magnitude(wave)), wave.direction.x),
         RMul(RMul(RMul(Cos(pos), wave.amplitude), wavevector_magnitude(wave)),
              steepness_factor(wave, K)),
         RMul(RMul(RMul(Sin(pos), wave.amplitude), wavevector_magnitude(wave)), wave.direction.y))

\* A loop that stops one wave early.
RECURSIVE WavesLoopShort(_, _, _, _, _, _)
WavesLoopShort(i, K, acc, wavesArray, worldPosition, time) ==
    IF i >= K - 1 THEN acc
    ELSE LET wave == wavesArray[i + 1]
             pos == WavePos(wave, worldPosition, time)
         IN  WavesLoopShort(i + 1, K,
                            [waves_sum |-> Add3(acc.waves_sum, WaveOffset(wave, K, pos)),
                             waves_sum_normal |->
                                 Add3(acc.waves_sum_normal, WaveNormal(wave, K, pos))],
                            wavesArray, worldPosition, time)

\* for (var i = 0; i < wave_numbers; i = i + 1) { ... }: the sums after the
\* iterations i .. K-1, starting from acc.  `var waves_sum_normal: vec3<f32>;`
\* has no initializer: WGSL gives it the zero value.
RECURSIVE WavesLoop(_, _, _, _, _, _)
WavesLoop(i, K, acc, wavesArray, worldPosition, time) ==
    IF i >= K THEN acc
    ELSE LET wave == wavesArray[i + 1]
             pos == WavePos(wave, worldPosition, time)
         IN  WavesLoop(i + 1, K,
                       [waves_sum |-> Add3(acc.waves_sum, WaveOffset(wave, K, pos)),
                        waves_sum_normal |-> Add3(acc.waves_sum_normal, WaveNormal(wave, K, pos))],
                       wavesArray, worldPosition, time)

\* waves_sum.y as the loop accumulates it in f32 at a vertex and time where
\* every phase is 0.0: there offset.y = wave.amplitude * cos(0.0) is the
\* amplitude the buffer holds, and the sum is rounded after every addition.
RECURSIVE CrestHeightF32(_, _, _)
CrestHeightF32(wavesArray, i, acc) ==
    IF i >= Len(wavesArray) THEN acc
    ELSE CrestHeightF32(wavesArray, i + 1,
                        F32Add(acc, ToFloat32(ToDouble(wavesArray[i + 1].amplitude))))

\* waves_sum_normal.y = 1.0 - waves_sum_normal.y, before normalize.
SummedNormal(n) == Vec3(n.x, RSub(ROne, n.y), n.z)

\* A displacement that adds the summed height to the base height.
DisplaceAddingHeight(worldPosition, waves_sum) ==
    Vec4(RSub(worldPosition.x, waves_sum.x), RAdd(worldPosition.y, waves_sum.y),
         RSub(worldPosition.z, waves_sum.z), worldPosition.w)

\* worldPosition.x -= waves_sum.x; worldPosition.z -= waves_sum.z; worldPosition.y = waves_sum.y
Displace(worldPosition, waves_sum) ==
    Vec4(RSub(worldPosition.x, waves_sum.x), waves_sum.y,
         RSub(worldPosition.z, waves_sum.z), worldPosition.w)

\* var worldPosition = uniforms.modelMatrix * vec4(position, 1.0)
WorldBase(u, position) ==
    MatMulVec(u.modelMatrix, Vec4(position.x, position.y, position.z, ROne))

\* A vertex stage that hands the normal attribute on.
vertex_main_with_input_normal(K, position, normal, uv, u, wu) ==
    LET worldBase == WorldBase(u, position)
        sums == WavesLoop(0, K, [waves_sum |-> Vec3Zero, waves_sum_normal |-> Vec3Zero],
                          wu.waves, worldBase, u.elapsedTime)
        summed == SummedNormal(sums.waves_sum_normal)
        worldPosition == Displace(worldBase, sums.waves_sum)
    IN  [worldPosition |-> worldPosition,
         position |-> MatMulVec(u.viewProjectionMatrix, worldPosition),
         normal |-> normalize(normal),
         summed |-> summed,
         uv |-> uv]

vertex_main(K, position, normal, uv, u, wu) ==
    LET worldBase == WorldBase(u, position)
        sums == WavesLoop(0, K, [waves_sum |-> Vec3Zero, waves_sum_normal |-> Vec3Zero],
                          wu.waves, worldBase, u.elapsedTime)
        summed == SummedNormal(sums.waves_sum_normal)
        worldPosition == Displace(worldBase, sums.waves_sum)
    IN  [worldPosition |-> worldPosition,
         position |-> MatMulVec(u.viewProjectionMatrix, worldPosition),
         normal |-> normalize(summed),
         summed |-> summed,
         uv |-> uv]

(***************************************************************************)
(* gerstner-waves.wgsl: fragment_main, the height normalisation and the    *)
(* underwater colour lookup.                                               *)
(***************************************************************************)
\* A float division: x / 0 has no finite value.
NaN == <<0, 0>>
FDiv(a, b) == IF RIsZero(b) THEN NaN ELSE RDiv(a, b)

Clamp01(a) == IF RLt(a, RZero) THEN RZero ELSE IF RLt(ROne, a) THEN ROne ELSE a

\* let normalized_height = (data.worldPosition.y + amplitudeSum) / (2.0 * amplitudeSum)
normalized_height(worldY, amplitudeSum) ==
    FDiv(RAdd(worldY, amplitudeSum), RMul(R(2), amplitudeSum))

\* device.createSampler({ addressModeU: "clamp-to-edge", addressModeV: "clamp-to-edge" })
\* A sampler created with addressModeU: "repeat".
seaSamplerRepeat == [addressModeU |-> "repeat", addressModeV |-> "clamp-to-edge"]

seaSampler == [addressModeU |-> "clamp-to-edge", addressModeV |-> "clamp-to-edge"]

\* The texture coordinate a sampler looks up for the coordinate u it is given.
SamplerAddress(mode, u) ==
    CASE u = NaN -> NaN
      [] mode = "clamp-to-edge" -> Clamp01(u)
      [] mode = "repeat" -> RSub(u, R(RFloor(u)))
      [] OTHER -> u

fragment_main(data, wu) ==
    LET h == normalized_height(data.worldPosition.y, wu.amplitudeSum)
    IN  [normalized_height |-> h,
         divisor |-> RMul(R(2), wu.amplitudeSum),
         lookupU |-> SamplerAddress(seaSampler.addressModeU, h),
         lookupV |-> SamplerAddress(seaSampler.addressModeV, RZero)]

\* const amplitudeSum = waves.reduce((acc, wave) => acc + wave.amplitude, 0)
RECURSIVE AmplitudeSumFrom(_, _)
AmplitudeSumFrom(ws, i) ==
    IF i > Len(ws) THEN RZero ELSE RAdd(ws[i].amplitude, AmplitudeSumFrom(ws, i + 1))
AmplitudeSum(ws) == AmplitudeSumFrom(ws, 1)

(***************************************************************************)
(* The memory layout the shader reads: WGSL places each struct member at   *)
(* the next multiple of its alignment after the previous member.           *)
(***************************************************************************)
RoundUp(k, n) == ((n + k - 1) \div k) * k

RECURSIVE MemberOffset(_, _)
MemberOffset(members, j) ==
    IF j = 1 THEN 0
    ELSE RoundUp(members[j].align, MemberOffset(members, j - 1) + members[j - 1].size)

OffsetOf(members, name) ==
    MemberOffset(members, CHOOSE j \in 1..Len(members) : members[j].name = name)

\* struct Uniforms: f32; [[align(16)]] mat4x4<f32>; mat4x4<f32>; vec3<f32>.
UniformsStruct ==
    << [name |-> "elapsedTime", size |-> 4, align |-> 4],
       [name |-> "modelMatrix", size |-> 64, align |-> 16],
       [name |-> "viewProjectionMatrix", size |-> 64, align |-> 16],
       [name |-> "cameraPosition", size |-> 12, align |-> 16] >>

\* struct GerstnerWaveParameters: three f32; [[size(16), align(8)]] vec2<f32>.
GerstnerWaveParametersStruct ==
    << [name |-> "length", size |-> 4, align |-> 4],
       [name |-> "amplitude", size |-> 4, align |-> 4],
       [name |-> "steepness", size |-> 4, align |-> 4],
       [name |-> "direction", size |-> 16, align |-> 8] >>

\* waves: [[stride(32)]] array<GerstnerWaveParameters, 5>
wavesArrayStride == 32
wavesArrayLength == 5

\* struct GerstnerWavesUniforms: the wave array; amplitudeSum: f32.
GerstnerWavesUniformsStruct ==
    << [name |-> "waves", size |-> wavesArrayStride * wavesArrayLength, align |-> 8],
       [name |-> "amplitudeSum", size |-> 4, align |-> 4] >>

\* Byte offset of field `name` of waves_uniforms.waves[i] (i from 0).
ShaderWaveFieldOffset(i, name) ==
    OffsetOf(GerstnerWavesUniformsStruct, "waves") + wavesArrayStride * i
        + OffsetOf(GerstnerWaveParametersStruct, name)

(***************************************************************************)
(* GPU buffers and the queue.  A buffer maps byte offsets 0..size-1 to     *)
(* bytes; a byte no writeBuffer has reached is Unwritten (it reads as 0).  *)
(***************************************************************************)
Unwritten == <<"unwritten">>

\* device.createBuffer({ size }).
CreateBuffer(size) == [o \in 0..(size - 1) |-> Unwritten]
BufferSize(buf) == Cardinality(DOMAIN buf)

\* device.queue.writeBuffer(buf, offset, data) for data of the given bytes.  A
\* write that does not fit the buffer is a validation error and writes nothing.
WriteBuffer(buf, offset, bytes) ==
    IF offset + Len(bytes) > BufferSize(buf) THEN buf
    ELSE [o \in DOMAIN buf |->
            IF o >= offset /\ o < offset + Len(bytes) THEN bytes[o - offset + 1] ELSE buf[o]]

\* The f32 the shader reads at a byte offset: the element whose four bytes lie
\* there, 0 where nothing was written, and no float32 of the program otherwise.
ReadF32(buf, offset) ==
    IF \A k \in 0..3 : offset + k \in DOMAIN buf /\ buf[offset + k] = Unwritten THEN ZeroFill
    ELSE IF \A k \in 0..3 : /\ offset + k \in DOMAIN buf
                            /\ buf[offset + k] = <<buf[offset][1], k>>
         THEN buf[offset][1]
    ELSE [torn |-> TRUE]

ReadF32s(buf, offset, count) == [j \in 1..count |-> ReadF32(buf, offset + 4 * (j - 1))]

\* A uniform buffer with no room for the camera position.
uniformBufferSizeWithoutCamera == (4 + 16 + 16) * 4

\* size: (4 + 16 + 16 + 3) * Float32Array.BYTES_PER_ELEMENT
uniformBufferSize == (4 + 16 + 16 + 3) * 4
\* size: 32 * 5 + 4
wavesParametersBufferSize == 32 * 5 + 4

(***************************************************************************)
(* index.ts: the wave literal and its packing.                             *)
(***************************************************************************)
\* vec2.normalize(vec2.create(), v): a Float32Array of two elements; gl-matrix
\* leaves (0, 0) for the zero vector.
VecNormalize(v) ==
    IF RIsZero(v[1]) /\ RIsZero(v[2]) THEN <<Float32Zero, Float32Zero>>
    ELSE << [normalize |-> v, component |-> 1], [normalize |-> v, component |-> 2] >>

\* A wave literal of four descriptors, one fewer than the shader reads.
ReferenceWavesShort ==
    << [waveLength |-> R(8), amplitude |-> <<1, 10>>, steepness |-> ROne,
        direction |-> VecNormalize(<<ROne, <<13, 10>>>>)],
       [waveLength |-> R(4), amplitude |-> <<1, 10>>, steepness |-> <<4, 5>>,
        direction |-> VecNormalize(<<<<-7, 10>>, RZero>>)],
       [waveLength |-> R(5), amplitude |-> <<1, 5>>, steepness |-> ROne,
        direction |-> VecNormalize(<<<<3, 10>>, <<1, 5>>>>)],
       [waveLength |-> R(10), amplitude |-> <<1, 2>>, steepness |-> ROne,
        direction |-> VecNormalize(<<<<43, 10>>, <<6, 5>>>>)] >>

\* const waves = [ ... ] of the draw callback.
ReferenceWaves ==
    << [waveLength |-> R(8), amplitude |-> <<1, 10>>, steepness |-> ROne,
        direction |-> VecNormalize(<<ROne, <<13, 10>>>>)],
       [waveLength |-> R(4), amplitude |-> <<1, 10>>, steepness |-> <<4, 5>>,
        direction |-> VecNormalize(<<<<-7, 10>>, RZero>>)],
       [waveLength |-> R(5), amplitude |-> <<1, 5>>, steepness |-> ROne,
        direction |-> VecNormalize(<<<<3, 10>>, <<1, 5>>>>)],
       [waveLength |-> R(10), amplitude |-> <<1, 2>>, steepness |-> ROne,
        direction |-> VecNormalize(<<<<43, 10>>, <<6, 5>>>>)],
       [waveLength |-> R(3), amplitude |-> <<1, 10>>, steepness |-> ROne,
        direction |-> VecNormalize(<<<<1, 2>>, <<1, 2>>>>)] >>

\* typedArray[index] = number: converted to float32; ignored out of range.
StoreNumber(arr, index, x) ==
    IF index + 1 \in DOMAIN arr THEN [arr EXCEPT ![index + 1] = ToFloat32(ToDouble(x))] ELSE arr

\* typedArray.set(source, offset) for a Float32Array source: elements copied.
SetElements(arr, source, offset) ==
    [j \in DOMAIN arr |->
        IF j - 1 >= offset /\ j - 1 < offset + Len(source) THEN source[j - offset] ELSE arr[j]]

\* A packing loop that places direction right after steepness.
PackWaveUnpadded(arr, ws, i) ==
    LET a1 == StoreNumber(arr, 0 + i * 8, ws[i + 1].waveLength)
        a2 == StoreNumber(a1, 1 + i * 8, ws[i + 1].amplitude)
        a3 == StoreNumber(a2, 2 + i * 8, ws[i + 1].steepness)
    IN  SetElements(a3, ws[i + 1].direction, 3 + i * 8)

\* The body of the packing loop for wave i (from 0).
PackWave(arr, ws, i) ==
    LET a1 == StoreNumber(arr, 0 + i * 8, ws[i + 1].waveLength)
        a2 == StoreNumber(a1, 1 + i * 8, ws[i + 1].amplitude)
        a3 == StoreNumber(a2, 2 + i * 8, ws[i + 1].steepness)
    IN  SetElements(a3, ws[i + 1].direction, 4 + i * 8)

RECURSIVE PackLoop(_, _, _)
PackLoop(arr, ws, i) ==
    IF i >= Len(ws) THEN arr ELSE PackLoop(PackWave(arr, ws, i), ws, i + 1)

\* const wavesStride = 32
wavesStride == 32

\* new Float32Array((waves.length * wavesStride) / 4), then the packing loop.
PackWaves(ws) ==
    PackLoop([j \in 1..((Len(ws) * wavesStride) \div 4) |-> ZeroFill], ws, 0)

\* waves.reduce((acc, wave) => acc + wave.amplitude, 0), as the number summed.
RECURSIVE CpuAmplitudeSumFrom(_, _)
CpuAmplitudeSumFrom(ws, i) ==
    IF i > Len(ws) THEN RZero ELSE RAdd(ws[i].amplitude, CpuAmplitudeSumFrom(ws, i + 1))
\* A reduce that leaves the first wave out.
CpuAmplitudeSumSkippingFirst(ws) == ToDouble(CpuAmplitudeSumFrom(ws, 2))
CpuAmplitudeSum(ws) == ToDouble(CpuAmplitudeSumFrom(ws, 1))

(***************************************************************************)
(* controls.ts                                                             *)
(***************************************************************************)
\* JavaScript a % b: the remainder has the sign of a.
JsRem(a, b) == IF a >= 0 THEN a % b ELSE -((-a) % b)
Max(a, b) == IF a >= b THEN a ELSE b
Min(a, b) == IF a <= b THEN a ELSE b

\* A limit that reduces x and leaves y as it is.
limitXYWithoutClamp(c) == [c EXCEPT !.x = JsRem(c.x, 360)]

limitXY(c) == [c EXCEPT !.y = Max(-90, Min(-10, c.y)), !.x = JsRem(c.x, 360)]

\* new Controls(canvas, x, y)
NewControls(x, y) == limitXY([x |-> x, y |-> y, isMouseDown |-> FALSE])

onPointerDown(c) == [c EXCEPT !.isMouseDown = TRUE]

\* A pointermove handler that does not look at isMouseDown.
onPointerMoveAlways(c, movementX, movementY) ==
    limitXY([c EXCEPT !.x = c.x - movementX, !.y = c.y - movementY])

onPointerMove(c, movementX, movementY) ==
    limitXY(IF c.isMouseDown
            THEN [c EXCEPT !.x = c.x - movementX, !.y = c.y - movementY]
            ELSE c)

onPointerUp(c) == IF c.isMouseDown THEN [c EXCEPT !.isMouseDown = FALSE] ELSE c

(***************************************************************************)
(* index.ts: the camera of a frame.  The matrices gl-matrix computes are   *)
(* Float32Arrays whose elements are named by what they were computed from. *)
(***************************************************************************)
\* createOrbitViewMatrix(15, quat.fromEuler(quat.create(), controls.y, controls.x, 0))
createOrbitViewMatrix(radius, eulerX, eulerY) == <<"viewMatrix", radius, eulerX, eulerY>>

\* positionFromViewMatrix(viewMatrix): vec3 of the inverse's translation.
positionFromViewMatrix(viewMatrix) == [j \in 1..3 |-> [viewPosition |-> viewMatrix, component |-> j]]

\* mat4.multiply(mat4.create(), projectionMatrix, viewMatrix)
ViewProjection(viewMatrix) == [j \in 1..16 |-> [viewProjection |-> viewMatrix, component |-> j]]

\* modelMatrix as Float32Array
ModelMatrixArray == [j \in 1..16 |-> ToFloat32(ToDouble(modelMatrix[j]))]

(***************************************************************************)
(* Spec: the page.  main() runs from the load event through its awaits;    *)
(* the draw callback runs statement by statement, and no other callback    *)
(* of the page runs while it does (JavaScript runs a callback to its end). *)
(***************************************************************************)
MaxNow == 225
MaxFrames == 2
ClockSteps == { 100, 125 }
\* movementX, movementY of the pointermove events delivered.
Movements ==
    { [movementX |-> 180, movementY |-> 100], [movementX |-> -720, movementY |-> -100] }

\* No Plane is under construction outside PlaneSpec.
GeometryOff == plane = <<>>

\* The shader stages are not stepped in Spec, PackSpec: their variables rest.
ShaderOff ==
    /\ stage = "off"
    /\ attrs = <<>>
    /\ uniforms = <<>>
    /\ waves_uniforms = <<>>
    /\ vout = <<>>
    /\ fin = <<>>
    /\ fout = <<>>
    /\ invocations = <<>>

Init ==
    /\ ShaderOff
    /\ GeometryOff
    /\ mainPc = "load"
    /\ drawPc = "idle"
    /\ rafPending = 0
    /\ frame = 0
    /\ now = 0
    /\ startTime = 0
    /\ elapsedTime = DoubleZero
    /\ controls = <<>>
    /\ waves = ReferenceWaves
    /\ locals = <<>>
    /\ uniformBuffer = <<>>
    /\ wavesParametersBuffer = <<>>
    /\ queueLog = <<>>

\* Time passes between the callbacks of the page.
Tick ==
    /\ drawPc = "idle"
    /\ mainPc \in {"image", "running"}
    /\ \E d \in ClockSteps : now + d <= MaxNow /\ now' = now + d
    /\ UNCHANGED <<mainPc, drawPc, rafPending, frame, startTime, elapsedTime, controls,
                   waves, locals, uniformBuffer, wavesParametersBuffer, queueLog, shaderVars, geometryVars>>

\* A main that creates its buffers before it looks at the adapter.
MainRequestAdapterCheckedLate ==
    /\ mainPc = "load"
    /\ \E adapter \in BOOLEAN :
          mainPc' = IF adapter THEN "adapter" ELSE "Could not retrieve a WebGPU adapter."
    /\ uniformBuffer' = CreateBuffer(uniformBufferSize)
    /\ wavesParametersBuffer' = CreateBuffer(wavesParametersBufferSize)
    /\ UNCHANGED <<drawPc, rafPending, frame, now, startTime, elapsedTime, controls,
                   waves, locals, queueLog, shaderVars, geometryVars>>

\* const adapter = await navigator.gpu?.requestAdapter(); if (!adapter) throw ...
MainRequestAdapter ==
    /\ mainPc = "load"
    /\ \E adapter \in BOOLEAN :
          mainPc' = IF adapter THEN "adapter" ELSE "Could not retrieve a WebGPU adapter."
    /\ UNCHANGED <<drawPc, rafPending, frame, now, startTime, elapsedTime, controls,
                   waves, locals, uniformBuffer, wavesParametersBuffer, queueLog, shaderVars, geometryVars>>

\* const device = await adapter.requestDevice(); ... createBuffer x 2 ...
MainCreateResources ==
    /\ mainPc = "adapter"
    /\ mainPc' = "resources"
    /\ uniformBuffer' = CreateBuffer(uniformBufferSize)
    /\ wavesParametersBuffer' = CreateBuffer(wavesParametersBufferSize)
    /\ UNCHANGED <<drawPc, rafPending, frame, now, startTime, elapsedTime, controls,
                   waves, locals, queueLog, shaderVars, geometryVars>>

\* const seaColor = await loadImage(seaColorUrl); a failed load rejects main().
MainLoadImage ==
    /\ mainPc = "resources"
    /\ \E loaded \in BOOLEAN : mainPc' = IF loaded THEN "image" ELSE "failed"
    /\ UNCHANGED <<drawPc, rafPending, frame, now, startTime, elapsedTime, controls,
                   waves, locals, uniformBuffer, wavesParametersBuffer, queueLog, shaderVars, geometryVars>>

\* new Controls(canvas, 50, -25); controls.register(); startTime = Date.now();
\* elapsedTime = 0; requestAnimationFrame(draw)
MainStartLoop ==
    /\ mainPc = "image"
    /\ mainPc' = "running"
    /\ controls' = NewControls(50, -25)
    /\ startTime' = now
    /\ elapsedTime' = ToDouble(RZero)
    /\ rafPending' = rafPending + 1
    /\ UNCHANGED <<drawPc, frame, now, waves, locals, uniformBuffer,
                   wavesParametersBuffer, queueLog, shaderVars, geometryVars>>

\* The listeners of controls.register(): they run between callbacks.
PointerDown ==
    /\ mainPc = "running" /\ drawPc = "idle"
    /\ controls' = onPointerDown(controls)
    /\ UNCHANGED <<mainPc, drawPc, rafPending, frame, now, startTime, elapsedTime,
                   waves, locals, uniformBuffer, wavesParametersBuffer, queueLog, shaderVars, geometryVars>>

PointerMove ==
    /\ mainPc = "running" /\ drawPc = "idle"
    /\ \E e \in Movements : controls' = onPointerMove(controls, e.movementX, e.movementY)
    /\ UNCHANGED <<mainPc, drawPc, rafPending, frame, now, startTime, elapsedTime,
                   waves, locals, uniformBuffer, wavesParametersBuffer, queueLog, shaderVars, geometryVars>>

PointerUp ==
    /\ mainPc = "running" /\ drawPc = "idle"
    /\ controls' = onPointerUp(controls)
    /\ UNCHANGED <<mainPc, drawPc, rafPending, frame, now, startTime, elapsedTime,
                   waves, locals, uniformBuffer, wavesParametersBuffer, queueLog, shaderVars, geometryVars>>

WriteOp(buffer, offset, size) ==
    [op |-> "writeBuffer", buffer |-> buffer, offset |-> offset, size |-> size]
SubmitOp == [op |-> "submit"]

\* A draw callback that submits before it uploads amplitudeSum.
DrawOrderSubmitEarly ==
    << "camera", "writeTime", "writeModel", "writeViewProjection", "writeCamera",
       "packWaves", "writeWaves", "submit", "writeAmplitudeSum", "updateTime",
       "requestFrame", "idle" >>

\* The statements of the draw callback, in source order, and each one's successor.
DrawOrder ==
    << "camera", "writeTime", "writeModel", "writeViewProjection", "writeCamera",
       "packWaves", "writeWaves", "writeAmplitudeSum", "submit", "updateTime",
       "requestFrame", "idle" >>
NextPc(pc) == DrawOrder[(CHOOSE j \in 1..Len(DrawOrder) : DrawOrder[j] = pc) + 1]

\* A draw callback that takes the camera position from the initial orientation.
DrawCameraInitialPosition ==
    /\ drawPc = "idle" /\ rafPending > 0
    /\ rafPending' = rafPending - 1
    /\ frame' = Min(frame + 1, MaxFrames)
    /\ LET viewMatrix == createOrbitViewMatrix(15, controls.y, controls.x)
       IN  locals' = [viewMatrix |-> viewMatrix,
                      viewPosition |->
                          positionFromViewMatrix(createOrbitViewMatrix(15, -25, 50)),
                      viewProjectionMatrix |-> ViewProjection(viewMatrix),
                      elapsedTime |-> elapsedTime]
    /\ queueLog' = <<>>
    /\ drawPc' = NextPc("camera")
    /\ UNCHANGED <<mainPc, now, startTime, elapsedTime, controls, waves,
                   uniformBuffer, wavesParametersBuffer, shaderVars, geometryVars>>

\* The host runs a requested draw callback: viewMatrix, viewPosition,
\* viewProjectionMatrix from one read of controls.
DrawCamera ==
    /\ drawPc = "idle" /\ rafPending > 0
    /\ rafPending' = rafPending - 1
    /\ frame' = Min(frame + 1, MaxFrames)
    /\ LET viewMatrix == createOrbitViewMatrix(15, controls.y, controls.x)
       IN  locals' = [viewMatrix |-> viewMatrix,
                      viewPosition |-> positionFromViewMatrix(viewMatrix),
                      viewProjectionMatrix |-> ViewProjection(viewMatrix),
                      elapsedTime |-> elapsedTime]
    /\ queueLog' = <<>>
    /\ drawPc' = NextPc("camera")
    /\ UNCHANGED <<mainPc, now, startTime, elapsedTime, controls, waves,
                   uniformBuffer, wavesParametersBuffer, shaderVars, geometryVars>>

\* One writeBuffer of the draw callback at drawPc = pc.
DrawWrite(pc, buffer, offset, bytes) ==
    /\ drawPc = pc
    /\ drawPc' = NextPc(pc)
    /\ IF buffer = "uniformBuffer"
       THEN /\ uniformBuffer' = WriteBuffer(uniformBuffer, offset, bytes)
            /\ UNCHANGED wavesParametersBuffer
       ELSE /\ wavesParametersBuffer' = WriteBuffer(wavesParametersBuffer, offset, bytes)
            /\ UNCHANGED uniformBuffer
    /\ queueLog' = Append(queueLog, WriteOp(buffer, offset, Len(bytes)))
    /\ UNCHANGED <<mainPc, rafPending, frame, now, startTime, elapsedTime, controls,
                   waves, locals, shaderVars, geometryVars>>

\* A time write that samples the clock itself, with no lag.
DrawWriteTimeFresh ==
    DrawWrite("writeTime", "uniformBuffer", 0,
              BytesOf(Float32ArrayOf(ToDouble(Rat(now - startTime, 1000)))))

\* A time write that uploads the scalar with its 12 bytes of padding.
DrawWriteTimePadded ==
    DrawWrite("writeTime", "uniformBuffer", 0,
              BytesOf(Float32ArrayOf(elapsedTime) \o <<ZeroFill, ZeroFill, ZeroFill>>))

\* A time write that is skipped after the first frame.
DrawWriteTimeOnce ==
    IF frame <= 1
    THEN DrawWrite("writeTime", "uniformBuffer", 0, BytesOf(Float32ArrayOf(elapsedTime)))
    ELSE DrawWrite("writeTime", "uniformBuffer", 0, <<>>)

\* writeBuffer(uniformBuffer, 0, new Float32Array([elapsedTime]).buffer)
DrawWriteTime ==
    DrawWrite("writeTime", "uniformBuffer", 0, BytesOf(Float32ArrayOf(elapsedTime)))

\* A model matrix written right after the scalar, at byte 4.
DrawWriteModelUnpadded ==
    DrawWrite("writeModel", "uniformBuffer", 4, BytesOf(ModelMatrixArray))

\* writeBuffer(uniformBuffer, 16, modelMatrix as Float32Array)
DrawWriteModel ==
    DrawWrite("writeModel", "uniformBuffer", 16, BytesOf(ModelMatrixArray))

\* writeBuffer(uniformBuffer, 16 + 16 * 4, viewProjectionMatrix as Float32Array)
DrawWriteViewProjection ==
    DrawWrite("writeViewProjection", "uniformBuffer", 16 + 16 * 4,
              BytesOf(locals.viewProjectionMatrix))

\* writeBuffer(uniformBuffer, 16 + 16 * 2 * 4, viewPosition as Float32Array)
DrawWriteCamera ==
    DrawWrite("writeCamera", "uniformBuffer", 16 + 16 * 2 * 4, BytesOf(locals.viewPosition))

\* const waves = [...]; wavesParametersArray = new Float32Array(...); the loop.
DrawPackWaves ==
    /\ drawPc = "packWaves"
    /\ drawPc' = NextPc("packWaves")
    /\ locals' = [w \in DOMAIN locals \cup {"wavesParametersArray"} |->
                     IF w = "wavesParametersArray" THEN PackWaves(waves) ELSE locals[w]]
    /\ UNCHANGED <<mainPc, rafPending, frame, now, startTime, elapsedTime, controls,
                   waves, uniformBuffer, wavesParametersBuffer, queueLog, shaderVars, geometryVars>>

\* writeBuffer(wavesParametersBuffer, 0, wavesParametersArray)
DrawWriteWaves ==
    DrawWrite("writeWaves", "wavesParametersBuffer", 0, BytesOf(locals.wavesParametersArray))

\* amplitudeSum = waves.reduce(...); writeBuffer(wavesParametersBuffer,
\* wavesParametersArray.byteLength, new Float32Array([amplitudeSum]).buffer)
DrawWriteAmplitudeSum ==
    DrawWrite("writeAmplitudeSum", "wavesParametersBuffer",
              4 * Len(locals.wavesParametersArray),
              BytesOf(Float32ArrayOf(CpuAmplitudeSum(waves))))

\* The render pass is encoded and device.queue.submit([commandEncoder.finish()]).
DrawSubmit ==
    /\ drawPc = "submit"
    /\ drawPc' = NextPc("submit")
    /\ queueLog' = Append(queueLog, SubmitOp)
    /\ UNCHANGED <<mainPc, rafPending, frame, now, startTime, elapsedTime, controls,
                   waves, locals, uniformBuffer, wavesParametersBuffer, shaderVars, geometryVars>>

\* elapsedTime = (Date.now() - startTime) / 1000
DrawUpdateTime ==
    /\ drawPc = "updateTime"
    /\ drawPc' = NextPc("updateTime")
    /\ elapsedTime' = ToDouble(Rat(now - startTime, 1000))
    /\ UNCHANGED <<mainPc, rafPending, frame, now, startTime, controls, waves, locals,
                   uniformBuffer, wavesParametersBuffer, queueLog, shaderVars, geometryVars>>

\* A draw callback that returns without requesting a frame.
DrawRequestFrameNever ==
    /\ drawPc = "requestFrame"
    /\ drawPc' = NextPc("requestFrame")
    /\ rafPending' = rafPending
    /\ UNCHANGED <<mainPc, frame, now, startTime, elapsedTime, controls, waves, locals,
                   uniformBuffer, wavesParametersBuffer, queueLog, shaderVars, geometryVars>>

\* requestAnimationFrame(draw): the callback returns.
DrawRequestFrame ==
    /\ drawPc = "requestFrame"
    /\ drawPc' = NextPc("requestFrame")
    /\ rafPending' = rafPending + 1
    /\ UNCHANGED <<mainPc, frame, now, startTime, elapsedTime, controls, waves, locals,
                   uniformBuffer, wavesParametersBuffer, queueLog, shaderVars, geometryVars>>

Draw ==
    \/ DrawCamera
    \/ DrawWriteTime
    \/ DrawWriteModel
    \/ DrawWriteViewProjection
    \/ DrawWriteCamera
    \/ DrawPackWaves
    \/ DrawWriteWaves
    \/ DrawWriteAmplitudeSum
    \/ DrawSubmit
    \/ DrawUpdateTime
    \/ DrawRequestFrame

Next ==
    \/ Tick
    \/ MainRequestAdapter
    \/ MainCreateResources
    \/ MainLoadImage
    \/ MainStartLoop
    \/ PointerDown
    \/ PointerMove
    \/ PointerUp
    \/ Draw

Spec == Init /\ [][Next]_vars

\* The position of the draw callback after its next statement: a step of
\* Draw is a step that moves drawPc, and moves it so.
DrawAdvance ==
    /\ drawPc # "idle" \/ rafPending > 0
    /\ drawPc' = IF drawPc = "idle" THEN NextPc("camera") ELSE NextPc(drawPc)

\* The host runs a requested animation frame callback, and a callback that
\* has started runs on to its return.
FairSpec == Spec /\ WF_drawPc(DrawAdvance)

(***************************************************************************)
(* ControlsSpec: a Controls object constructed with any x and y, and the   *)
(* pointer events delivered to its listeners.                              *)
(***************************************************************************)
ControlsInit ==
    /\ ShaderOff
    /\ GeometryOff
    /\ mainPc = "running"
    /\ drawPc = "idle"
    /\ rafPending = 1
    /\ frame = 0
    /\ now = 0
    /\ startTime = 0
    /\ elapsedTime = DoubleZero
    /\ \E x \in {-725, -360, -359, -181, -1, 0, 50, 179, 359, 360, 725},
          y \in {-200, -91, -90, -89, -50, -11, -10, -9, 0, 90} :
          controls = NewControls(x, y)
    /\ waves = ReferenceWaves
    /\ locals = <<>>
    /\ uniformBuffer = CreateBuffer(uniformBufferSize)
    /\ wavesParametersBuffer = CreateBuffer(wavesParametersBufferSize)
    /\ queueLog = <<>>

ControlsSpec == ControlsInit /\ [][PointerDown \/ PointerMove \/ PointerUp]_vars

(***************************************************************************)
(* PackSpec: the draw callback as a function of the wave literal.  The     *)
(* literal is the reference one, or the reference one with one descriptor  *)
(* edited to a value the shader's comments exclude.                        *)
(***************************************************************************)
EditedDescriptors(w) ==
    { [w EXCEPT !.waveLength = RZero],
      [w EXCEPT !.waveLength = R(-1)],
      [w EXCEPT !.amplitude = RZero],
      [w EXCEPT !.steepness = <<3, 2>>],
      [w EXCEPT !.steepness = <<-1, 2>>],
      [w EXCEPT !.direction = VecNormalize(<<RZero, RZero>>)] }

WaveLiterals ==
    {ReferenceWaves} \cup
    { [ReferenceWaves EXCEPT ![i] = w] :
        i \in 1..Len(ReferenceWaves), w \in EditedDescriptors(ReferenceWaves[1]) }

PackInit ==
    /\ ShaderOff
    /\ GeometryOff
    /\ mainPc = "running"
    /\ drawPc = "idle"
    /\ rafPending = 1
    /\ frame = 0
    /\ now = 0
    /\ startTime = 0
    /\ elapsedTime = DoubleZero
    /\ controls = NewControls(50, -25)
    /\ waves \in WaveLiterals
    /\ locals = <<>>
    /\ uniformBuffer = CreateBuffer(uniformBufferSize)
    /\ wavesParametersBuffer = CreateBuffer(wavesParametersBufferSize)
    /\ queueLog = <<>>

PackNext == Draw

PackSpec == PackInit /\ [][PackNext]_vars

(***************************************************************************)
(* EvalSpec: one evaluation of vertex_main and fragment_main, as functions *)
(* of their inputs.  The inputs are drawn from bounded sets; the wave      *)
(* count is the length of the wave array (the shader was built with        *)
(* wave_numbers = 3 and = 5).                                              *)
(***************************************************************************)
MaxWaves == 2

\* Valid descriptors: 0 < L, 0 < A, 0 <= S <= 1, |D| = 1.
WaveCandidates ==
    { [length |-> R(8), amplitude |-> <<1, 10>>, steepness |-> ROne,
       direction |-> Vec2(<<3, 5>>, <<4, 5>>)],
      [length |-> R(4), amplitude |-> <<1, 10>>, steepness |-> <<4, 5>>,
       direction |-> Vec2(R(-1), RZero)],
      [length |-> R(5), amplitude |-> <<1, 5>>, steepness |-> RZero,
       direction |-> Vec2(RZero, ROne)],
      [length |-> R(10), amplitude |-> <<1, 2>>, steepness |-> RZero,
       direction |-> Vec2(<<4, 5>>, <<3, 5>>)] }

\* An array of wave_numbers descriptors, as the page uploads.
FullWaveArray ==
    << [length |-> R(8), amplitude |-> <<1, 10>>, steepness |-> ROne,
        direction |-> Vec2(<<3, 5>>, <<4, 5>>)],
       [length |-> R(4), amplitude |-> <<1, 10>>, steepness |-> <<4, 5>>,
        direction |-> Vec2(R(-1), RZero)],
       [length |-> R(5), amplitude |-> <<1, 5>>, steepness |-> ROne,
        direction |-> Vec2(<<4, 5>>, <<3, 5>>)],
       [length |-> R(10), amplitude |-> <<1, 2>>, steepness |-> ROne,
        direction |-> Vec2(<<24, 25>>, <<7, 25>>)],
       [length |-> R(4), amplitude |-> <<1, 10>>, steepness |-> ROne,
        direction |-> Vec2(RZero, ROne)] >>

WaveSets == UNION { [1..n -> WaveCandidates] : n \in 0..MaxWaves } \cup { FullWaveArray }

\* Vertices of the plane (x, y, 0) with the normal (0, 0, 1) the mesh stores.
Positions ==
    { Vec3(RZero, RZero, RZero), Vec3(ROne, RZero, RZero),
      Vec3(RZero, R(2), RZero), Vec3(R(6), R(6), RZero) }

ModelMatrices == { modelMatrix, IdentityMatrix }
Times == { RZero, <<1, 2>>, ROne }

\* The page does not run in EvalSpec: its variables rest.
PageOff ==
    /\ mainPc = "off"
    /\ drawPc = "idle"
    /\ rafPending = 0
    /\ frame = 0
    /\ now = 0
    /\ startTime = 0
    /\ elapsedTime = DoubleZero
    /\ controls = <<>>
    /\ waves = <<>>
    /\ locals = <<>>
    /\ uniformBuffer = <<>>
    /\ wavesParametersBuffer = <<>>
    /\ queueLog = <<>>

EvalInit ==
    /\ PageOff
    /\ GeometryOff
    /\ stage = "input"
    /\ attrs \in [position : Positions,
                  normal : {Vec3(RZero, RZero, ROne), Vec3(RZero, ROne, RZero)},
                  uv : {Vec2(RZero, ROne)}]
    /\ uniforms \in [elapsedTime : Times, modelMatrix : ModelMatrices,
                     viewProjectionMatrix : {IdentityMatrix},
                     cameraPosition : {Vec3(RZero, R(5), R(15))}]
    /\ \E ws \in WaveSets :
          waves_uniforms = [waves |-> ws, amplitudeSum |-> AmplitudeSum(ws)]
    /\ vout = <<>>
    /\ fin = <<>>
    /\ fout = <<>>
    /\ invocations = <<>>

\* The vertex stage runs vertex_main on the vertex.
EvalVertex ==
    /\ stage = "input"
    /\ stage' = "vertex"
    /\ vout' = vertex_main(Len(waves_uniforms.waves), attrs.position, attrs.normal,
                           attrs.uv, uniforms, waves_uniforms)
    /\ UNCHANGED <<attrs, uniforms, waves_uniforms, fin, fout, invocations, pageVars, geometryVars>>

\* The height by which an interpolated fragment may over- or undershoot.
FragmentOvershoot == { RZero, R(2), R(-2) }

\* The fragment stage runs fragment_main on the interpolated vertex output:
\* that of the vertex itself, or one whose height overshoots.
EvalFragment ==
    /\ stage = "vertex"
    /\ stage' = "fragment"
    /\ \E d \in FragmentOvershoot :
          fin' = [vout EXCEPT !.worldPosition.y = RAdd(@, d)]
    /\ fout' = fragment_main(fin', waves_uniforms)
    /\ UNCHANGED <<attrs, uniforms, waves_uniforms, vout, invocations, pageVars, geometryVars>>

EvalNext == EvalVertex \/ EvalFragment

EvalSpec == EvalInit /\ [][EvalNext]_vars

(***************************************************************************)
(* DispatchSpec: the vertex invocations of one draw call.  The GPU runs    *)
(* vertex_main once per vertex, on any number of workers, in any order and *)
(* interleaving; each invocation has its own function-scope variables      *)
(* (output, worldPosition, waves_sum, waves_sum_normal, i) and reads the   *)
(* uniform bindings, which no shader stage can write.                      *)
(***************************************************************************)
MaxVertices == 3

\* The first vertices of the vertex buffer: position, normal, uv.
VertexBuffer ==
    << [position |-> Vec3(RZero, RZero, RZero), normal |-> Vec3(RZero, RZero, ROne),
        uv |-> Vec2(RZero, ROne)],
       [position |-> Vec3(ROne, RZero, RZero), normal |-> Vec3(RZero, RZero, ROne),
        uv |-> Vec2(ROne, ROne)],
       [position |-> Vec3(R(6), R(6), RZero), normal |-> Vec3(RZero, RZero, ROne),
        uv |-> Vec2(<<1, 2>>, <<1, 2>>)],
       [position |-> Vec3(RZero, R(2), RZero), normal |-> Vec3(RZero, RZero, ROne),
        uv |-> Vec2(RZero, <<5, 6>>)],
       [position |-> Vec3(R(2), R(2), RZero), normal |-> Vec3(RZero, RZero, ROne),
        uv |-> Vec2(<<1, 6>>, <<5, 6>>)] >>

DispatchWaveSets == { ws \in [1..2 -> WaveCandidates] : ws[1] # ws[2] }

DispatchInit ==
    /\ PageOff
    /\ GeometryOff
    /\ stage = "dispatch"
    /\ attrs = <<>>
    /\ uniforms \in [elapsedTime : {RZero, ROne}, modelMatrix : {modelMatrix},
                     viewProjectionMatrix : {IdentityMatrix},
                     cameraPosition : {Vec3(RZero, R(5), R(15))}]
    /\ \E ws \in DispatchWaveSets :
          waves_uniforms = [waves |-> ws, amplitudeSum |-> AmplitudeSum(ws)]
    /\ vout = <<>>
    /\ fin = <<>>
    /\ fout = <<>>
    /\ invocations = [v \in 1..MaxVertices |->
                         [pc |-> "start", attrs |-> VertexBuffer[v], i |-> 0,
                          worldPosition |-> <<>>, waves_sum |-> Vec3Zero,
                          waves_sum_normal |-> Vec3Zero, output |-> <<>>]]

DispatchUnchanged == UNCHANGED <<stage, attrs, uniforms, waves_uniforms, vout, fin, fout, pageVars, geometryVars>>

\* var worldPosition = uniforms.modelMatrix * vec4(position, 1.0); the two sums.
InvokeBegin(v) ==
    /\ invocations[v].pc = "start"
    /\ invocations' = [invocations EXCEPT ![v] =
          [@ EXCEPT !.pc = "loop", !.i = 0,
                    !.worldPosition = WorldBase(uniforms, invocations[v].attrs.position),
                    !.waves_sum = Vec3Zero, !.waves_sum_normal = Vec3Zero]]
    /\ DispatchUnchanged

\* An iteration that accumulates into the sums of the first invocation's.
InvokeIterateShared(v) ==
    /\ invocations[v].pc = "loop"
    /\ invocations[v].i < Len(waves_uniforms.waves)
    /\ LET inv == invocations[v]
           wave == waves_uniforms.waves[inv.i + 1]
           K == Len(waves_uniforms.waves)
           pos == WavePos(wave, inv.worldPosition, uniforms.elapsedTime)
       IN  invocations' = [invocations EXCEPT ![v] =
             [@ EXCEPT !.i = inv.i + 1,
                       !.waves_sum = Add3(invocations[1].waves_sum, WaveOffset(wave, K, pos)),
                       !.waves_sum_normal =
                           Add3(invocations[1].waves_sum_normal, WaveNormal(wave, K, pos))]]
    /\ DispatchUnchanged

\* One iteration of the loop of invocation v.
InvokeIterate(v) ==
    /\ invocations[v].pc = "loop"
    /\ invocations[v].i < Len(waves_uniforms.waves)
    /\ LET inv == invocations[v]
           wave == waves_uniforms.waves[inv.i + 1]
           K == Len(waves_uniforms.waves)
           pos == WavePos(wave, inv.worldPosition, uniforms.elapsedTime)
       IN  invocations' = [invocations EXCEPT ![v] =
             [@ EXCEPT !.i = inv.i + 1,
                       !.waves_sum = Add3(inv.waves_sum, WaveOffset(wave, K, pos)),
                       !.waves_sum_normal = Add3(inv.waves_sum_normal, WaveNormal(wave, K, pos))]]
    /\ DispatchUnchanged

\* The statements after the loop, and return output.
InvokeFinish(v) ==
    /\ invocations[v].pc = "loop"
    /\ invocations[v].i >= Len(waves_uniforms.waves)
    /\ LET inv == invocations[v]
           summed == SummedNormal(inv.waves_sum_normal)
           worldPosition == Displace(inv.worldPosition, inv.waves_sum)
       IN  invocations' = [invocations EXCEPT ![v] =
             [@ EXCEPT !.pc = "done",
                       !.output = [worldPosition |-> worldPosition,
                                   position |-> MatMulVec(uniforms.viewProjectionMatrix,
                                                          worldPosition),
                                   normal |-> normalize(summed),
                                   summed |-> summed,
                                   uv |-> inv.attrs.uv]]]
    /\ DispatchUnchanged

DispatchNext ==
    \E v \in DOMAIN invocations : InvokeBegin(v) \/ InvokeIterate(v) \/ InvokeFinish(v)

DispatchSpec == DispatchInit /\ [][DispatchNext]_vars

(***************************************************************************)
(* PlaneSpec: new Plane(width, height, rows, columns), one step per pass   *)
(* of the inner loops of generateVertecies and generateIndices.            *)
(***************************************************************************)
MaxRows == 3
MaxColumns == 3

\* readonly positionOffset = 0; normalOffset = 3; stride = 8.
positionOffset == 0
normalOffset == 3
stride == 8

\* Math.floor(n) || 1: 0 is falsy.
FloorOrOne(n) == IF RFloor(n) = 0 THEN 1 ELSE RFloor(n)

\* A constructor that keeps a count of 0.
NewPlaneKeepingZero(width, height, rows, columns) ==
    [width |-> width, height |-> height,
     rows |-> RFloor(rows), columns |-> RFloor(columns),
     vertecies |-> <<>>, indices |-> <<>>,
     pc |-> "generateVertecies", row |-> 0, col |-> 0]

\* constructor: this.rows = Math.floor(rows) || 1, the same for columns; then
\* generateVertecies() is entered.
NewPlane(width, height, rows, columns) ==
    [width |-> width, height |-> height,
     rows |-> FloorOrOne(rows), columns |-> FloorOrOne(columns),
     vertecies |-> <<>>, indices |-> <<>>,
     pc |-> "generateVertecies", row |-> 0, col |-> 0]

\* The eight numbers pushed for the vertex of (row, col).
VertexOf(p, row, col) ==
    LET rowHeight == RDiv(p.height, R(p.rows))
        y == RMul(R(row), rowHeight)
        colWidth == RDiv(p.width, R(p.columns))
        x == RMul(R(col), colWidth)
    IN  << x, y, RZero,
           RZero, RZero, ROne,
           RDiv(R(col), R(p.columns)), RSub(ROne, RDiv(R(row), R(p.rows))) >>

\* The two triangles with the corners exchanged in the first.
CellIndicesClockwise(columnsOffset, row, col) ==
    LET leftBottom == columnsOffset * row + col
        rightBottom == columnsOffset * row + (col + 1)
        leftUp == columnsOffset * (row + 1) + col
        rightUp == columnsOffset * (row + 1) + (col + 1)
    IN  << leftBottom, leftUp, rightBottom, rightUp, leftUp, rightBottom >>

\* The six indices pushed for the cell of (row, col).
CellIndices(columnsOffset, row, col) ==
    LET leftBottom == columnsOffset * row + col
        rightBottom == columnsOffset * row + (col + 1)
        leftUp == columnsOffset * (row + 1) + col
        rightUp == columnsOffset * (row + 1) + (col + 1)
    IN  << leftUp, leftBottom, rightBottom, rightUp, leftUp, rightBottom >>

\* The arguments of the constructor: the page's 12 by 12, the defaults 1 by 1,
\* a fractional size; whole and fractional positive counts, and 0.
PlaneInit ==
    /\ PageOff
    /\ ShaderOff
    /\ \E width \in { R(12), ROne, <<1, 2>> }, height \in { R(12), ROne },
          rows \in { R(k) : k \in 0..MaxRows } \cup { <<5, 2>> },
          columns \in { R(k) : k \in 0..MaxColumns } \cup { <<1, 2>> } :
          plane = NewPlane(width, height, rows, columns)

\* for (row = 0; row <= this.rows; row++) for (col = 0; col <= this.columns; col++):
\* the loop tests, and one pass of the inner body.
GenerateVertecies ==
    /\ plane.pc = "generateVertecies"
    /\ plane' =
          IF plane.row > plane.rows
          THEN [plane EXCEPT !.pc = "generateIndices", !.row = 0, !.col = 0]
          ELSE IF plane.col > plane.columns
          THEN [plane EXCEPT !.row = plane.row + 1, !.col = 0]
          ELSE [plane EXCEPT !.vertecies = plane.vertecies \o VertexOf(plane, plane.row, plane.col),
                             !.col = plane.col + 1]
    /\ UNCHANGED <<pageVars, shaderVars>>

\* for (row = 0; row < this.rows; row++) for (col = 0; col < this.columns; col++):
\* the loop tests, and one pass of the inner body.
GenerateIndices ==
    /\ plane.pc = "generateIndices"
    /\ plane' =
          IF plane.row >= plane.rows
          THEN [plane EXCEPT !.pc = "constructed"]
          ELSE IF plane.col >= plane.columns
          THEN [plane EXCEPT !.row = plane.row + 1, !.col = 0]
          ELSE [plane EXCEPT !.indices = plane.indices \o
                                 CellIndices(plane.columns + 1, plane.row, plane.col),
                             !.col = plane.col + 1]
    /\ UNCHANGED <<pageVars, shaderVars>>

PlaneNext == GenerateVertecies \/ GenerateIndices

PlaneSpec == PlaneInit /\ [][PlaneNext]_vars

(***************************************************************************)
(* Claims about the packing and the frame loop (Spec, PackSpec).           *)
(***************************************************************************)
\* The statements of the running or last frame that have been executed.
Done(pc) ==
    /\ locals # <<>>
    /\ \E j, k \in 1..Len(DrawOrder) : DrawOrder[j] = pc /\ DrawOrder[k] = drawPc /\ j < k

\* The element of a Float32Array at a byte offset.
ElementAt(arr, byte) == arr[(byte \div 4) + 1]

StoredFloat(x) == ToFloat32(ToDouble(x))

\* C1: for every wave i the packer places length at byte 32i, amplitude at
\* 32i+4, steepness at 32i+8, direction at 32i+16 and 32i+20, and stores
\* nothing at 32i+12, 32i+24, 32i+28; these are the offsets at which the
\* shader's struct layout reads the fields, and after the upload the shader
\* reads there the values of the descriptor.
C1_WaveLayout ==
    Done("packWaves") =>
        \A i \in 0..(Len(waves) - 1) :
            LET arr == locals.wavesParametersArray
                w == waves[i + 1]
            IN  /\ ElementAt(arr, 32 * i) = StoredFloat(w.waveLength)
                /\ ElementAt(arr, 32 * i + 4) = StoredFloat(w.amplitude)
                /\ ElementAt(arr, 32 * i + 8) = StoredFloat(w.steepness)
                /\ ElementAt(arr, 32 * i + 16) = w.direction[1]
                /\ ElementAt(arr, 32 * i + 20) = w.direction[2]
                /\ \A pad \in {12, 24, 28} : ElementAt(arr, 32 * i + pad) = ZeroFill
                /\ ShaderWaveFieldOffset(i, "length") = 32 * i
                /\ ShaderWaveFieldOffset(i, "amplitude") = 32 * i + 4
                /\ ShaderWaveFieldOffset(i, "steepness") = 32 * i + 8
                /\ ShaderWaveFieldOffset(i, "direction") = 32 * i + 16
                /\ Done("writeWaves") =>
                      /\ ReadF32(wavesParametersBuffer, ShaderWaveFieldOffset(i, "length"))
                            = StoredFloat(w.waveLength)
                      /\ ReadF32(wavesParametersBuffer, ShaderWaveFieldOffset(i, "amplitude"))
                            = StoredFloat(w.amplitude)
                      /\ ReadF32(wavesParametersBuffer, ShaderWaveFieldOffset(i, "steepness"))
                            = StoredFloat(w.steepness)
                      /\ ReadF32s(wavesParametersBuffer,
                                  ShaderWaveFieldOffset(i, "direction"), 2) = w.direction

\* The wave array of a frame is uploaded and the shader reads the last
\* descriptor's direction at byte 32 * 4 + 16.
C1_Witness ==
    /\ drawPc = "writeAmplitudeSum"
    /\ Len(waves) = 5
    /\ ReadF32(wavesParametersBuffer, 32 * 4 + 16) = VecNormalize(<<<<1, 2>>, <<1, 2>>>>)[1]
    /\ ReadF32(wavesParametersBuffer, 32 * 4 + 12) = ZeroFill

\* The uniform writes the queue has logged for this frame.
UniformWrites ==
    { j \in 1..Len(queueLog) :
        queueLog[j].op = "writeBuffer" /\ queueLog[j].buffer = "uniformBuffer" }

\* C2: once a frame has written its uniforms, the buffer holds elapsedTime in
\* bytes 0..3, modelMatrix in 16..79, viewProjectionMatrix in 80..143 and
\* cameraPosition in 144..155, which is where the shader's Uniforms struct
\* reads them; bytes 4..15 are never written; no two writes overlap.
C2_UniformLayout ==
    /\ \A o \in DOMAIN uniformBuffer : (o >= 4 /\ o < 16) => uniformBuffer[o] = Unwritten
    /\ \A j, k \in UniformWrites :
          j < k => \/ queueLog[j].offset + queueLog[j].size <= queueLog[k].offset
                   \/ queueLog[k].offset + queueLog[k].size <= queueLog[j].offset
    /\ Done("writeCamera") =>
          /\ ReadF32(uniformBuffer, 0) = ToFloat32(locals.elapsedTime)
          /\ ReadF32s(uniformBuffer, 16, 16) = ModelMatrixArray
          /\ ReadF32s(uniformBuffer, 80, 16) = locals.viewProjectionMatrix
          /\ ReadF32s(uniformBuffer, 144, 3) = locals.viewPosition
          /\ OffsetOf(UniformsStruct, "elapsedTime") = 0
          /\ OffsetOf(UniformsStruct, "modelMatrix") = 16
          /\ OffsetOf(UniformsStruct, "viewProjectionMatrix") = 80
          /\ OffsetOf(UniformsStruct, "cameraPosition") = 144

\* A later frame has written its four uniforms, with a time other than 0.
C2_Witness ==
    /\ drawPc = "packWaves"
    /\ frame = 2
    /\ Cardinality(UniformWrites) = 4
    /\ ReadF32(uniformBuffer, 0) # Float32Zero
    /\ ReadF32(uniformBuffer, 152) = locals.viewPosition[3]

\* The FrameUniforms value a frame packs, and what the buffer unpacks to.
FrameUniforms ==
    [elapsedTime |-> locals.elapsedTime,
     modelMatrix |-> ModelMatrixArray,
     viewProjectionMatrix |-> locals.viewProjectionMatrix,
     cameraPosition |-> locals.viewPosition]

Unpack(buf) ==
    [elapsedTime |-> Float32ToDouble(ReadF32(buf, 0)),
     modelMatrix |-> ReadF32s(buf, 16, 16),
     viewProjectionMatrix |-> ReadF32s(buf, 80, 16),
     cameraPosition |-> ReadF32s(buf, 144, 3)]

\* C3 as stated: unpacking the packed buffer at offsets 0, 16, 80, 144
\* reproduces elapsedTime, modelMatrix, viewProjectionMatrix and
\* cameraPosition bit-exactly.
C3_RoundTripExact ==
    Done("writeCamera") => Unpack(uniformBuffer) = FrameUniforms

\* The 24-bit mantissa a float32 holds for the low and high halves of a double's.
RoundedMantissa(x) ==
    IF x.lo > 2^28 \/ (x.lo = 2^28 /\ x.hi % 2 = 1) THEN x.hi + 1 ELSE x.hi

\* C3 as amended: unpacking reproduces modelMatrix, viewProjectionMatrix and
\* cameraPosition (Float32Arrays already) bit-exactly, and elapsedTime
\* rounded to the nearest float32: it is reproduced bit-exactly when and only
\* when the number is representable in float32 (as 0 and 0.125 are).
C3_RoundTripUpToFloat32 ==
    Done("writeCamera") =>
        LET u == Unpack(uniformBuffer)
            t == locals.elapsedTime
        IN  /\ u.modelMatrix = FrameUniforms.modelMatrix
            /\ u.viewProjectionMatrix = FrameUniforms.viewProjectionMatrix
            /\ u.cameraPosition = FrameUniforms.cameraPosition
            /\ u.elapsedTime.s = t.s
            /\ u.elapsedTime.lo = 0
            /\ \/ u.elapsedTime.hi = RoundedMantissa(t) /\ u.elapsedTime.e = t.e
               \/ u.elapsedTime.hi = 2^23 /\ RoundedMantissa(t) = 2^24
                    /\ u.elapsedTime.e = t.e + 1
            /\ (u.elapsedTime = t) <=> (t.lo = 0)

\* A frame packs an elapsedTime that float32 cannot hold (0.1 s), and the
\* matrices still come back exactly.
C3_Witness ==
    /\ Done("writeCamera")
    /\ locals.elapsedTime = ToDouble(<<1, 10>>)
    /\ Unpack(uniformBuffer).elapsedTime # locals.elapsedTime
    /\ Unpack(uniformBuffer).viewProjectionMatrix = locals.viewProjectionMatrix

\* What the spec's WaveParameterSet construction accepts.
ValidDescriptor(w) ==
    /\ RLt(RZero, w.waveLength)
    /\ RLt(RZero, w.amplitude)
    /\ RLe(RZero, w.steepness) /\ RLe(w.steepness, ROne)
    /\ w.direction # <<Float32Zero, Float32Zero>>

\* C4: a wave literal with an invalid descriptor is rejected: nothing of it
\* is packed and nothing of it is uploaded.
C4_InvalidDescriptorRejected ==
    (\E i \in 1..Len(waves) : ~ValidDescriptor(waves[i])) =>
        /\ "wavesParametersArray" \notin DOMAIN locals
        /\ \A o \in DOMAIN wavesParametersBuffer : wavesParametersBuffer[o] = Unwritten

\* The six writes of a frame's inputs.
FrameWrites ==
    { WriteOp("uniformBuffer", 0, 4), WriteOp("uniformBuffer", 16, 64),
      WriteOp("uniformBuffer", 80, 64), WriteOp("uniformBuffer", 144, 12),
      WriteOp("wavesParametersBuffer", 0, 160), WriteOp("wavesParametersBuffer", 160, 4) }

C10_LogOrdered ==
    \A j \in 1..Len(queueLog) :
        queueLog[j] = SubmitOp =>
            /\ j = Len(queueLog)
            /\ FrameWrites = { queueLog[k] : k \in 1..(j - 1) }

C10_QuietAfterSubmit ==
    (mainPc = "running" /\ (drawPc = "idle" \/ Done("submit")))
        => UNCHANGED <<uniformBuffer, wavesParametersBuffer>>

\* C10: in every frame the six writes of the frame's inputs are issued before
\* the frame's queue.submit, and no step between a frame's submit and the
\* start of the next draw callback changes either buffer.
C10_WritesBeforeSubmit == [](C10_LogOrdered) /\ [][C10_QuietAfterSubmit]_vars

\* A second frame has submitted: its log holds the six writes, then the submit.
C10_Witness ==
    /\ frame = 2
    /\ drawPc = "updateTime"
    /\ Len(queueLog) = 7
    /\ queueLog[7] = SubmitOp
    /\ ReadF32(wavesParametersBuffer, 160) = Float32ArrayOf(CpuAmplitudeSum(waves))[1]


\* The values of a frame as one Float32Array of the whole uniform buffer.
FullUniformArray ==
    <<ToFloat32(locals.elapsedTime), ZeroFill, ZeroFill, ZeroFill>>
        \o ModelMatrixArray \o locals.viewProjectionMatrix \o locals.viewPosition

C11_SameAsFullWrite ==
    Done("writeCamera") =>
        ReadF32s(uniformBuffer, 0, 39)
            = ReadF32s(WriteBuffer(CreateBuffer(uniformBufferSize), 0,
                                   BytesOf(FullUniformArray)), 0, 39)

C11_TimeWriteTouchesOnlyTime ==
    (drawPc = "writeTime" /\ drawPc' # "writeTime") =>
        /\ \A o \in DOMAIN uniformBuffer : o >= 4 => uniformBuffer'[o] = uniformBuffer[o]
        /\ wavesParametersBuffer' = wavesParametersBuffer

\* C11: the write of the time scalar (bytes 0..3) leaves every other byte of
\* the uniform buffer unchanged, and after a frame's per-field writes the
\* buffer reads as it would after one full-buffer write of the frame's values.
C11_PartialUpdate == [](C11_SameAsFullWrite) /\ [][C11_TimeWriteTouchesOnlyTime]_vars

\* The second frame has rewritten the time alone: the matrix of the first
\* frame is still in place behind it.
C11_Witness ==
    /\ frame = 2
    /\ drawPc = "writeModel"
    /\ ReadF32(uniformBuffer, 0) = ToFloat32(elapsedTime)
    /\ ReadF32(uniformBuffer, 0) # Float32Zero
    /\ ReadF32s(uniformBuffer, 16, 16) = ModelMatrixArray
    /\ ReadF32(uniformBuffer, 4) = ZeroFill

\* The buffers a frame's values and wave set pack to, whatever came before.
FreshUniformBuffer ==
    LET b0 == CreateBuffer(uniformBufferSize)
        b1 == WriteBuffer(b0, 0, BytesOf(<<ToFloat32(locals.elapsedTime)>>))
        b2 == WriteBuffer(b1, 16, BytesOf(ModelMatrixArray))
        b3 == WriteBuffer(b2, 80, BytesOf(locals.viewProjectionMatrix))
    IN  WriteBuffer(b3, 144, BytesOf(locals.viewPosition))

FreshWavesBuffer ==
    LET b0 == CreateBuffer(wavesParametersBufferSize)
        b1 == WriteBuffer(b0, 0, BytesOf(PackLoop([j \in 1..(8 * Len(waves)) |-> ZeroFill],
                                                  waves, 0)))
    IN  WriteBuffer(b1, 32 * Len(waves),
                    BytesOf(<<ToFloat32(ToDouble(AmplitudeSum(waves)))>>))

\* C12: the bytes of both buffers after a frame's packing are a function of
\* the frame's values and the wave set alone: they equal the bytes the same
\* values pack to on fresh buffers, whatever the frame number and whatever
\* the buffers held before.
C12_PackingIsFunctionOfInputs ==
    Done("writeAmplitudeSum") =>
        /\ uniformBuffer = FreshUniformBuffer
        /\ wavesParametersBuffer = FreshWavesBuffer

\* A second frame has packed a later time and another camera over the
\* content of the first.
C12_Witness ==
    /\ frame = 2
    /\ Done("writeAmplitudeSum")
    /\ locals.elapsedTime # DoubleZero
    /\ locals.viewMatrix # createOrbitViewMatrix(15, -25, 50)
    /\ uniformBuffer = FreshUniformBuffer

\* A float32 that was stored from a number and is greater than 0.
IsPositiveFloat(v) == DOMAIN v = {"s", "e", "m"} /\ v.s = 0 /\ v.m > 0
IsStoredFloat(v) == DOMAIN v = {"s", "e", "m"}
IsNormalizedComponent(v) == DOMAIN v = {"normalize", "component"}

\* C14: the divisor wave_numbers of the steepness factor is the bound of the
\* shader's loop, the length of the shader's wave array and the number of
\* descriptors draw packs; every slot the loop reads lies inside the buffer
\* and holds, once uploaded, a descriptor the packer wrote, with length > 0
\* and amplitude > 0.
C14_WaveCountAgrees ==
    /\ wave_numbers = wavesArrayLength
    /\ wave_numbers = Len(waves)
    /\ Done("packWaves") => Len(locals.wavesParametersArray) * 4 = wavesArrayStride * wave_numbers
    /\ Done("writeWaves") =>
          \A i \in 0..(wave_numbers - 1) :
              /\ ShaderWaveFieldOffset(i, "direction") + 16 <= BufferSize(wavesParametersBuffer)
              /\ IsPositiveFloat(ReadF32(wavesParametersBuffer,
                                         ShaderWaveFieldOffset(i, "length")))
              /\ IsPositiveFloat(ReadF32(wavesParametersBuffer,
                                         ShaderWaveFieldOffset(i, "amplitude")))
              /\ IsStoredFloat(ReadF32(wavesParametersBuffer,
                                       ShaderWaveFieldOffset(i, "steepness")))
              /\ \A c \in 0..1 :
                    IsNormalizedComponent(ReadF32(wavesParametersBuffer,
                        ShaderWaveFieldOffset(i, "direction") + 4 * c))

\* A frame is about to submit: the last slot the loop will read holds the
\* fifth descriptor of the literal.
C14_Witness ==
    /\ drawPc = "submit"
    /\ ReadF32(wavesParametersBuffer, ShaderWaveFieldOffset(wave_numbers - 1, "length"))
          = StoredFloat(R(3))
    /\ ReadF32(wavesParametersBuffer, ShaderWaveFieldOffset(wave_numbers - 1, "amplitude"))
          = StoredFloat(<<1, 10>>)

\* C15: the amplitudeSum a frame uploads is the sum of the amplitudes of
\* the descriptors the frame packed, all of them and no others, and it is
\* written at byte 32 * N, right after the N-element wave array, where the
\* shader reads GerstnerWavesUniforms.amplitudeSum.
C15_AmplitudeSumUpload ==
    /\ OffsetOf(GerstnerWavesUniformsStruct, "amplitudeSum") = 32 * Len(waves)
    /\ Done("writeAmplitudeSum") =>
          /\ Len(locals.wavesParametersArray) = 8 * Len(waves)
          /\ \A i \in 0..(Len(waves) - 1) :
                ElementAt(locals.wavesParametersArray, 32 * i + 4)
                    = StoredFloat(waves[i + 1].amplitude)
          /\ ReadF32(wavesParametersBuffer,
                     OffsetOf(GerstnerWavesUniformsStruct, "amplitudeSum"))
                = StoredFloat(AmplitudeSum(waves))
          /\ \E j \in 1..Len(queueLog) :
                queueLog[j] = WriteOp("wavesParametersBuffer", 32 * Len(waves), 4)

\* A frame has uploaded the sum 0.1 + 0.1 + 0.2 + 0.5 + 0.1 = 1 at byte 160.
C15_Witness ==
    /\ drawPc = "submit"
    /\ Len(waves) = 5
    /\ ReadF32(wavesParametersBuffer, 160) = StoredFloat(ROne)
    /\ queueLog[Len(queueLog)] = WriteOp("wavesParametersBuffer", 160, 4)

(***************************************************************************)
(* Claims about the evaluator and the shading stage (EvalSpec).            *)
(***************************************************************************)
WaveCount == Len(waves_uniforms.waves)
WaveIndices == 1..WaveCount
Evaluated == stage \in {"vertex", "fragment"}
AllSteepnessZero == \A i \in WaveIndices : RIsZero(waves_uniforms.waves[i].steepness)
AllSteepnessOne == \A i \in WaveIndices : waves_uniforms.waves[i].steepness = ROne
\* The phase of wave i at the evaluated vertex.
PhaseOf(i) ==
    WavePos(waves_uniforms.waves[i], WorldBase(uniforms, attrs.position), uniforms.elapsedTime)
AllAtCrest == \A i \in WaveIndices : Cos(PhaseOf(i)) = ROne

\* C5: with zero waves the displaced position equals worldBase in every
\* component and the normal is exactly (0, 1, 0).
C5_ZeroWavesIsIdentity ==
    (Evaluated /\ WaveCount = 0) =>
        /\ vout.worldPosition = WorldBase(uniforms, attrs.position)
        /\ vout.normal = [unit |-> TRUE, dir |-> <<0, 1, 0>>]

\* C6 as stated: for every non-empty valid wave set the vector handed to
\* normalize is not the zero vector, so the output normal has unit length.
C6_NormalAlwaysUnit ==
    (Evaluated /\ WaveCount >= 1) => vout.normal.unit

\* C6, the extent of the failure: the vector handed to normalize is the zero
\* vector only when every wave has steepness 1 and every wave is at a crest
\* (cos(phase) = 1); with any steepness below 1 the output normal has unit
\* length.
C6_NormalUnitUnlessAllSteepAtCrest ==
    (Evaluated /\ WaveCount >= 1) =>
        /\ ~AllSteepnessOne => (vout.normal.unit /\ RLt(RZero, vout.summed.y))
        /\ ~vout.normal.unit => (AllSteepnessOne /\ AllAtCrest)

\* A non-empty set with a steepness below 1, every wave at its crest: the
\* horizontal sums vanish and the normal rests on 1 - sum(S_i)/K alone.
C6_Witness ==
    /\ stage = "vertex"
    /\ WaveCount >= 2
    /\ ~AllSteepnessOne
    /\ \E i \in WaveIndices : waves_uniforms.waves[i].steepness = ROne
    /\ AllAtCrest
    /\ vout.normal.unit

\* C7: at elapsedTime = 0, with steepness 0 for every wave, the displaced x
\* and z equal those of worldBase.
C7_ZeroSteepnessNoHorizontalDisplacement ==
    (Evaluated /\ AllSteepnessZero /\ RIsZero(uniforms.elapsedTime)) =>
        /\ vout.worldPosition.x = WorldBase(uniforms, attrs.position).x
        /\ vout.worldPosition.z = WorldBase(uniforms, attrs.position).z

\* Zero steepness everywhere, time 0, and a wave whose sin(phase) and
\* direction would displace the vertex were its steepness positive.
C7_Witness ==
    /\ stage = "vertex"
    /\ WaveCount >= 1
    /\ AllSteepnessZero
    /\ RIsZero(uniforms.elapsedTime)
    /\ \E i \in WaveIndices :
          /\ ~RIsZero(Sin(PhaseOf(i)))
          /\ ~RIsZero(waves_uniforms.waves[i].direction.x)
    /\ ~RIsZero(vout.worldPosition.y)

InUnitInterval(a) == a # NaN /\ RLe(RZero, a) /\ RLe(a, ROne)
HeightInRange(y) ==
    /\ RLe(RNeg(waves_uniforms.amplitudeSum), y)
    /\ RLe(y, waves_uniforms.amplitudeSum)

C9_NeverDividesByZeroAmplitudeSum ==
    /\ (\E i \in WaveIndices : RLt(RZero, waves_uniforms.waves[i].amplitude))
          => RLt(RZero, waves_uniforms.amplitudeSum)
    /\ stage = "fragment" => (~RIsZero(fout.divisor) /\ fout.normalized_height # NaN)

\* The sum over the waves i.. of Q_i * A_i * k_i, and of S_i.
RECURSIVE SteepnessShareFrom(_)
SteepnessShareFrom(i) ==
    IF i > WaveCount THEN RZero
    ELSE LET wave == waves_uniforms.waves[i]
         IN  RAdd(RMul(RMul(steepness_factor(wave, WaveCount), wave.amplitude),
                       wavevector_magnitude(wave)),
                  SteepnessShareFrom(i + 1))

RECURSIVE SteepnessSumFrom(_)
SteepnessSumFrom(i) ==
    IF i > WaveCount THEN RZero
    ELSE RAdd(waves_uniforms.waves[i].steepness, SteepnessSumFrom(i + 1))

\* C13: for K >= 1 waves with steepness in [0, 1] the sum of Q_i * A_i * k_i
\* equals (sum of S_i) / K and is at most 1, and the y component handed to
\* normalize, 1 - sum of normal.y, is at least 0 for every vertex and time.
C13_NoFoldOver ==
    (Evaluated /\ WaveCount >= 1) =>
        /\ SteepnessShareFrom(1) = RDiv(SteepnessSumFrom(1), R(WaveCount))
        /\ RLe(SteepnessShareFrom(1), ROne)
        /\ RLe(RZero, vout.summed.y)

\* Several waves of steepness 1 at a common crest: the y component reaches
\* its bound 0 and does not pass it.
C13_Witness ==
    /\ stage = "vertex"
    /\ WaveCount >= 2
    /\ AllSteepnessOne
    /\ AllAtCrest
    /\ SteepnessShareFrom(1) = ROne
    /\ RIsZero(vout.summed.y)

\* The reference wave {L = 8, A = 0.1, S = 1.0, D = (0.6, 0.8)}.
ReferenceWave ==
    [length |-> R(8), amplitude |-> <<1, 10>>, steepness |-> ROne,
     direction |-> Vec2(<<3, 5>>, <<4, 5>>)]

AtOriginAtTimeZero ==
    /\ RIsZero(uniforms.elapsedTime)
    /\ WorldBase(uniforms, attrs.position) = Vec4(RZero, RZero, RZero, ROne)

\* C16: with the reference wave alone, elapsedTime = 0 and worldBase =
\* (0, 0, 0), the phase is 0, the offset is (0, 0.1, 0) and the displaced
\* position is (0, 0.1, 0).
C16_ReferenceWaveAtOrigin ==
    (Evaluated /\ waves_uniforms.waves = <<ReferenceWave>> /\ AtOriginAtTimeZero) =>
        /\ RIsZero(PhaseOf(1))
        /\ WaveOffset(ReferenceWave, 1, PhaseOf(1)) = Vec3(RZero, <<1, 10>>, RZero)
        /\ vout.worldPosition = Vec4(RZero, <<1, 10>>, RZero, ROne)

\* The reference wave evaluated at the centre of the plane, which the
\* page's model matrix places at the origin, at time 0.
C16_Witness ==
    /\ stage = "vertex"
    /\ waves_uniforms.waves = <<ReferenceWave>>
    /\ AtOriginAtTimeZero
    /\ uniforms.modelMatrix = modelMatrix
    /\ vout.worldPosition.y = <<1, 10>>

(***************************************************************************)
(* Claims about the vertex invocations of a draw call (DispatchSpec).      *)
(***************************************************************************)
C17_OutputIsOwnFunction ==
    \A v \in DOMAIN invocations :
        invocations[v].pc = "done" =>
            invocations[v].output =
                vertex_main(Len(waves_uniforms.waves), invocations[v].attrs.position,
                            invocations[v].attrs.normal, invocations[v].attrs.uv,
                            uniforms, waves_uniforms)

C17_StepTouchesOneInvocation ==
    \A v \in DOMAIN invocations :
        invocations'[v] # invocations[v] =>
            /\ \A w \in DOMAIN invocations \ {v} : invocations'[w] = invocations[w]
            /\ UNCHANGED <<uniforms, waves_uniforms>>

\* C17: whatever the order and interleaving in which the invocations of a
\* draw call run, each step changes the variables of one invocation only
\* and never the uniforms, and the output of every finished invocation is
\* vertex_main of its own attributes and the frame's uniforms.
C17_VertexIndependence ==
    [](C17_OutputIsOwnFunction) /\ [][C17_StepTouchesOneInvocation]_vars

\* The second vertex has finished while the first and the third are in the
\* middle of their loops; the outputs of two finished vertices differ.
C17_Witness ==
    /\ stage = "dispatch"
    /\ invocations[1].pc = "loop" /\ invocations[1].i = 1
    /\ invocations[3].pc = "loop" /\ invocations[3].i = 1
    /\ invocations[2].pc = "done"
    /\ invocations[2].output.worldPosition # invocations[2].worldPosition

(***************************************************************************)
(* Claims about the order of the descriptors (EvalSpec).                   *)
(***************************************************************************)
\* The wave arrays that hold the descriptors of the evaluated one in another order.
Reordered ==
    { [i \in WaveIndices |-> waves_uniforms.waves[p[i]]] : p \in Permutations(WaveIndices) }

SameInExactArithmetic(ws) ==
    LET o == vertex_main(WaveCount, attrs.position, attrs.normal, attrs.uv, uniforms,
                         [waves_uniforms EXCEPT !.waves = ws])
    IN  /\ o.worldPosition = vout.worldPosition
        /\ o.summed = vout.summed
        /\ o.normal = vout.normal

SameCrestHeightF32(ws) ==
    CrestHeightF32(ws, 0, Float32Zero) = CrestHeightF32(waves_uniforms.waves, 0, Float32Zero)

\* C18 as stated: for every permutation of the descriptors the evaluator
\* yields the same displaced position and the same accumulated normal, as the
\* shader computes them.
C18_OrderIndependent ==
    stage = "vertex" =>
        \A ws \in Reordered :
            /\ SameInExactArithmetic(ws)
            /\ AtOriginAtTimeZero => SameCrestHeightF32(ws)

\* C18 as amended: for every permutation of the descriptors the displaced
\* position and the accumulated normal are the same in exact arithmetic; the
\* f32 sums of the shader are also the same for up to two waves.
C18_OrderIndependentUpToRounding ==
    stage = "vertex" =>
        \A ws \in Reordered :
            /\ SameInExactArithmetic(ws)
            /\ (AtOriginAtTimeZero /\ WaveCount <= 2) => SameCrestHeightF32(ws)

\* Five descriptors at a common crest: some order of them gives another f32
\* height than the order evaluated, and the exact sums agree.
C18_Witness ==
    /\ stage = "vertex"
    /\ WaveCount = wave_numbers
    /\ AtOriginAtTimeZero
    /\ \E ws \in Reordered : ws # waves_uniforms.waves /\ ~SameCrestHeightF32(ws)
    /\ \A ws \in Reordered : SameInExactArithmetic(ws)

(***************************************************************************)
(* Claims about the plane geometry (PlaneSpec).                            *)
(***************************************************************************)
\* The x and y of the position of the vertex with the given index.
PositionOf(index) ==
    << plane.vertecies[index * stride + positionOffset + 1],
       plane.vertecies[index * stride + positionOffset + 2] >>

\* The stored normal of the vertex with the given index.
NormalOf(index) ==
    << plane.vertecies[index * stride + normalOffset + 1],
       plane.vertecies[index * stride + normalOffset + 2],
       plane.vertecies[index * stride + normalOffset + 3] >>

\* The triangles emitted so far, as triples of vertex indices.
Triangles ==
    { << plane.indices[3 * t + 1], plane.indices[3 * t + 2], plane.indices[3 * t + 3] >> :
        t \in 0..((Len(plane.indices) \div 3) - 1) }

\* Twice the signed area of the triangle in the XY plane.
SignedArea2(tri) ==
    LET a == PositionOf(tri[1])
        b == PositionOf(tri[2])
        c == PositionOf(tri[3])
    IN  RSub(RMul(RSub(b[1], a[1]), RSub(c[2], a[2])),
             RMul(RSub(b[2], a[2]), RSub(c[1], a[1])))

OtherNormals ==
    { Vec3(RZero, RZero, ROne), Vec3(RZero, ROne, RZero), Vec3(ROne, RZero, RZero),
      Vec3(RZero, RZero, RZero) }

\* C20: an evaluation that differs from the one made only in the normal
\* attribute has the same position, world position, normal and uv outputs;
\* the fragment stage, fed from these outputs, is then the same too.
C20_InputNormalUnused ==
    Evaluated =>
        \A n \in OtherNormals :
            LET o == vertex_main(WaveCount, attrs.position, n, attrs.uv, uniforms,
                                 waves_uniforms)
            IN  /\ o.position = vout.position
                /\ o.worldPosition = vout.worldPosition
                /\ o.normal = vout.normal
                /\ o.uv = vout.uv

\* A vertex evaluated with waves and with the normal attribute (0, 1, 0); the
\* normal put out is another vector than the attribute.
C20_Witness ==
    /\ stage = "vertex"
    /\ WaveCount >= 1
    /\ attrs.normal = Vec3(RZero, ROne, RZero)
    /\ vout.normal # normalize(attrs.normal)
    /\ vout.normal # normalize(Vec3(RZero, RZero, ROne))

(***************************************************************************)
(* Claims about the displaced position (EvalSpec).                         *)
(***************************************************************************)
\* The sums of the loop for the evaluated vertex.
EvaluatedSums ==
    WavesLoop(0, WaveCount, [waves_sum |-> Vec3Zero, waves_sum_normal |-> Vec3Zero],
              waves_uniforms.waves, WorldBase(uniforms, attrs.position), uniforms.elapsedTime)

\* Vertex positions one coordinate away from the evaluated one.
MovedPositions ==
    { Vec3(attrs.position.x, RAdd(attrs.position.y, d), attrs.position.z) : d \in {ROne, R(-2)} }
    \cup
    { Vec3(attrs.position.x, attrs.position.y, RAdd(attrs.position.z, d)) : d \in {ROne, R(-2)} }

\* The two base vertices differ in worldBase.y and in nothing else.
DiffersOnlyInBaseHeight(p) ==
    LET a == WorldBase(uniforms, attrs.position)
        b == WorldBase(uniforms, p)
    IN  a.x = b.x /\ a.z = b.z /\ a.w = b.w /\ a.y # b.y

\* C21: the output height is the summed offset.y alone, the horizontal
\* components are worldBase.xz minus the summed horizontal offsets, w is the
\* base's w, and a base vertex that differs only in worldBase.y gives the same
\* displaced position.
C21_HeightReplacesBase ==
    Evaluated =>
        /\ vout.worldPosition.y = EvaluatedSums.waves_sum.y
        /\ vout.worldPosition.x =
               RSub(WorldBase(uniforms, attrs.position).x, EvaluatedSums.waves_sum.x)
        /\ vout.worldPosition.z =
               RSub(WorldBase(uniforms, attrs.position).z, EvaluatedSums.waves_sum.z)
        /\ vout.worldPosition.w = WorldBase(uniforms, attrs.position).w
        /\ \A p \in MovedPositions :
               DiffersOnlyInBaseHeight(p) =>
                   vertex_main(WaveCount, p, attrs.normal, attrs.uv, uniforms,
                               waves_uniforms).worldPosition = vout.worldPosition

\* A vertex with a base height other than 0, displaced by waves both
\* horizontally and vertically, and a vertex at another base height.
C21_Witness ==
    /\ stage = "vertex"
    /\ WaveCount >= 1
    /\ ~RIsZero(WorldBase(uniforms, attrs.position).y)
    /\ ~RIsZero(EvaluatedSums.waves_sum.x)
    /\ vout.worldPosition.y # WorldBase(uniforms, attrs.position).y
    /\ \E p \in MovedPositions : DiffersOnlyInBaseHeight(p)

(***************************************************************************)
(* Claims about the camera, the clock and the frame loop (Spec).           *)
(***************************************************************************)
\* The view matrix the uploaded viewProjectionMatrix was computed from.
UploadedViewMatrix == ReadF32(uniformBuffer, 80).viewProjection

C22_OneViewMatrix ==
    Done("writeCamera") =>
        /\ \A j \in 1..16 :
              ReadF32(uniformBuffer, 80 + 4 * (j - 1)) =
                  [viewProjection |-> UploadedViewMatrix, component |-> j]
        /\ \A j \in 1..3 :
              ReadF32(uniformBuffer, 144 + 4 * (j - 1)) =
                  [viewPosition |-> UploadedViewMatrix, component |-> j]
        /\ drawPc # "idle" =>
              UploadedViewMatrix = createOrbitViewMatrix(15, controls.y, controls.x)

C22_ControlsRestInFrame ==
    controls' # controls => (drawPc = "idle" /\ drawPc' = "idle")

\* C22: in every frame the cameraPosition and the viewProjectionMatrix
\* uploaded come from one viewMatrix, built from the controls.x and
\* controls.y of the frame, and the controls change only between draw
\* callbacks.
C22_OneCameraPerFrame == [](C22_OneViewMatrix) /\ [][C22_ControlsRestInFrame]_vars

\* The second frame has uploaded its camera after a pointer drag turned it.
C22_Witness ==
    /\ frame = 2
    /\ drawPc = "packWaves"
    /\ controls.isMouseDown
    /\ UploadedViewMatrix # createOrbitViewMatrix(15, -25, 50)
    /\ ReadF32(uniformBuffer, 144).viewPosition = UploadedViewMatrix

\* The order of two doubles, and of two float32, that are not negative.
DoubleLe(a, b) ==
    \/ a.hi = 0
    \/ /\ b.hi # 0
       /\ \/ a.e < b.e
          \/ a.e = b.e /\ a.hi < b.hi
          \/ a.e = b.e /\ a.hi = b.hi /\ a.lo <= b.lo
Float32Le(a, b) ==
    \/ a.m = 0
    \/ b.m # 0 /\ (a.e < b.e \/ (a.e = b.e /\ a.m <= b.m))

\* The elapsedTime the shader would read; a buffer never written reads as 0.
UploadedTime ==
    IF ReadF32(uniformBuffer, 0) = ZeroFill THEN Float32Zero ELSE ReadF32(uniformBuffer, 0)

\* What a frame uploads is the variable as the previous frame left it: 0 in
\* the first frame.
C23_UploadIsLastSample ==
    /\ (Done("writeTime") /\ frame = 1) => ReadF32(uniformBuffer, 0) = Float32Zero
    /\ (Done("writeTime") /\ ~Done("updateTime")) =>
           ReadF32(uniformBuffer, 0) = ToFloat32(elapsedTime)

\* The one assignment of a frame follows the submit and samples the clock;
\* no other step assigns; the samples and the uploads never decrease.
C23_AssignedAfterSubmit ==
    /\ elapsedTime' # elapsedTime => drawPc = "updateTime"
    /\ (drawPc = "updateTime" /\ drawPc' # drawPc) =>
           /\ queueLog # <<>> /\ queueLog[Len(queueLog)] = SubmitOp
           /\ elapsedTime' = ToDouble(Rat(now - startTime, 1000))
    /\ DoubleLe(elapsedTime, elapsedTime')
    /\ (mainPc = "running" /\ mainPc' = "running") => Float32Le(UploadedTime, UploadedTime')

\* C23: elapsedTime is assigned once per frame, after the frame's submit; the
\* first frame uploads 0, frame n+1 uploads (Date.now() - startTime) / 1000
\* as sampled at the end of frame n, and the uploaded values never decrease.
C23_OneFrameLag == [](C23_UploadIsLastSample) /\ [][C23_AssignedAfterSubmit]_vars

\* The second frame has uploaded the sample of the first frame's end, which
\* is not 0, while the clock has moved on since.
C23_Witness ==
    /\ frame = 2
    /\ drawPc = "packWaves"
    /\ ReadF32(uniformBuffer, 0) = ToFloat32(elapsedTime)
    /\ elapsedTime # DoubleZero
    /\ elapsedTime # ToDouble(Rat(now - startTime, 1000))

\* At most one callback is requested, and none while one runs.
C24_AtMostOnePending ==
    /\ rafPending \in {0, 1}
    /\ drawPc # "idle" => rafPending = 0
    /\ (mainPc = "running" /\ drawPc = "idle") => rafPending = 1

\* A frame is requested by the last statement of a callback (or by main, once),
\* one at a time; a request goes away only by its callback starting, and a
\* callback starts only when none runs.
C24_RequestedOnceAsLastStep ==
    /\ rafPending' > rafPending =>
           /\ rafPending' = rafPending + 1
           /\ \/ drawPc = "requestFrame" /\ drawPc' = "idle"
              \/ mainPc = "image" /\ mainPc' = "running"
    /\ (drawPc = "requestFrame" /\ drawPc' # drawPc) => rafPending' = rafPending + 1
    /\ rafPending' < rafPending =>
           rafPending' = rafPending - 1 /\ drawPc = "idle" /\ drawPc' = "writeTime"
    /\ (drawPc # "idle" /\ drawPc' # drawPc) => drawPc' = NextPc(drawPc)

\* C24: once the first frame is scheduled, every draw callback requests one
\* following frame as its last step and none is cancelled: at most one
\* callback is pending, callbacks never overlap, and with a fair host every
\* frame is followed by another.
C24_LoopNeverStops ==
    /\ [](C24_AtMostOnePending)
    /\ [][C24_RequestedOnceAsLastStep]_vars
    /\ (mainPc = "running" /\ drawPc \in {"idle", "requestFrame"}) ~> (drawPc = "writeTime")

\* The second callback has run to its last statement and the third is about
\* to be requested.
C24_Witness ==
    /\ frame = 2
    /\ drawPc = "requestFrame"
    /\ rafPending = 0
    /\ queueLog # <<>> /\ queueLog[Len(queueLog)] = SubmitOp

C26_MoveNeedsPointerDown ==
    /\ (controls'.x # controls.x \/ controls'.y # controls.y) =>
           /\ controls.isMouseDown
           /\ controls'.isMouseDown
           /\ PointerMove
    /\ PointerDown => controls' = [controls EXCEPT !.isMouseDown = TRUE]
    /\ PointerUp => controls' = [controls EXCEPT !.isMouseDown = FALSE]
    /\ controls'.isMouseDown # controls.isMouseDown =>
           IF controls'.isMouseDown THEN PointerDown ELSE PointerUp

\* C26: a pointermove changes x or y only when isMouseDown is true, which it
\* is when the last pointerdown or pointerup delivered was a pointerdown;
\* otherwise it leaves them unchanged, and pointerdown and pointerup never
\* change x or y.
C26_OnlyDragMoves == [][C26_MoveNeedsPointerDown]_vars

\* The pointer is up again after a drag that moved the camera.
C26_Witness ==
    /\ ~controls.isMouseDown
    /\ controls.x = 5 - 180
    /\ controls.y = -90

(***************************************************************************)
(* Claims about the sizes of the plane's arrays (PlaneSpec).               *)
(***************************************************************************)
VertexCount == (plane.rows + 1) * (plane.columns + 1)

\* C27: a Plane of r rows and c columns holds (r+1)(c+1) vertices of 8 floats
\* each (position 3, normal 3, uv 2) and 6rc indices, each index naming a
\* vertex; a rows or columns argument that floors to 0 is replaced by 1, so
\* the divisions by rows and columns never divide by 0.
C27_PlaneSizes ==
    /\ plane.rows >= 1 /\ plane.columns >= 1
    /\ \A n \in {RZero, <<1, 2>>, <<9, 10>>} : FloorOrOne(n) = 1
    /\ plane.pc \in {"generateIndices", "constructed"} =>
           /\ Len(plane.vertecies) = 8 * VertexCount
           /\ \A v \in 0..(VertexCount - 1) :
                 /\ plane.vertecies[8 * v + 3] = RZero
                 /\ NormalOf(v) = <<RZero, RZero, ROne>>
                 /\ \A k \in 7..8 : /\ RLe(RZero, plane.vertecies[8 * v + k])
                                    /\ RLe(plane.vertecies[8 * v + k], ROne)
    /\ plane.pc = "constructed" => Len(plane.indices) = 6 * plane.rows * plane.columns
    /\ \A k \in DOMAIN plane.indices :
           plane.indices[k] >= 0 /\ plane.indices[k] <= VertexCount - 1

\* A constructed plane of one row, as a rows argument of 0 gives, whose last
\* index names the last vertex.
C27_Witness ==
    /\ plane.pc = "constructed"
    /\ plane.rows = 1 /\ plane.columns = 3
    /\ Len(plane.vertecies) = 64
    /\ Len(plane.indices) = 18
    /\ \E k \in DOMAIN plane.indices : plane.indices[k] = VertexCount - 1

(***************************************************************************)
(* Claims about the bounds of the buffers (Spec).                          *)
(***************************************************************************)
\* The buffer a logged write went to.
TargetOf(w) == IF w.buffer = "uniformBuffer" THEN uniformBuffer ELSE wavesParametersBuffer

\* The byte after the last one of a struct member.
MemberEnd(members, name) ==
    OffsetOf(members, name)
        + members[CHOOSE j \in 1..Len(members) : members[j].name = name].size

\* C28: every writeBuffer of the frame loop stays inside its buffer and every
\* field the shader reads lies inside the buffer bound to it: the uniform
\* buffer has 156 bytes and its last write ends at 144 + 12 = 156; the wave
\* buffer has 164 bytes, the wave array ends at 160 and amplitudeSum at 164.
C28_WritesInBounds ==
    /\ \A j \in 1..Len(queueLog) :
          queueLog[j].op = "writeBuffer" =>
              /\ queueLog[j].offset >= 0
              /\ queueLog[j].offset + queueLog[j].size <= BufferSize(TargetOf(queueLog[j]))
    /\ uniformBuffer # <<>> =>
          /\ BufferSize(uniformBuffer) = 156
          /\ BufferSize(wavesParametersBuffer) = 164
          /\ \A j \in 1..Len(UniformsStruct) :
                MemberEnd(UniformsStruct, UniformsStruct[j].name) <= BufferSize(uniformBuffer)
          /\ MemberEnd(UniformsStruct, "cameraPosition") = 156
          /\ MemberEnd(GerstnerWavesUniformsStruct, "waves") = 160
          /\ MemberEnd(GerstnerWavesUniformsStruct, "amplitudeSum") = 164
          /\ \A i \in 0..(wave_numbers - 1) :
                ShaderWaveFieldOffset(i, "direction") + 8 <= 160
    /\ Done("writeCamera") =>
          \E j \in 1..Len(queueLog) : queueLog[j] = WriteOp("uniformBuffer", 144, 12)
    /\ Done("writeAmplitudeSum") =>
          /\ \E j \in 1..Len(queueLog) : queueLog[j] = WriteOp("wavesParametersBuffer", 0, 160)
          /\ \E j \in 1..Len(queueLog) : queueLog[j] = WriteOp("wavesParametersBuffer", 160, 4)
          /\ ReadF32(wavesParametersBuffer, 160) # ZeroFill
          /\ ReadF32(uniformBuffer, 152) # ZeroFill

\* The second frame has issued its six writes, the last one ending at the
\* last byte of the wave buffer.
C28_Witness ==
    /\ frame = 2
    /\ drawPc = "submit"
    /\ Len(queueLog) = 6
    /\ queueLog[6].offset + queueLog[6].size = BufferSize(wavesParametersBuffer)
    /\ queueLog[4].offset + queueLog[4].size = BufferSize(uniformBuffer)

(***************************************************************************)
(* Claims about the range of the displaced height (EvalSpec).              *)
(***************************************************************************)
\* C29: for every vertex and time the height the vertex stage puts out lies
\* in [-amplitudeSum, +amplitudeSum], so the normalised height computed from
\* it, (worldY + amplitudeSum) / (2 * amplitudeSum), lies in [0, 1] with no
\* clamp.
C29_HeightWithinAmplitudeSum ==
    stage = "vertex" =>
        /\ HeightInRange(vout.worldPosition.y)
        /\ InUnitInterval(normalized_height(vout.worldPosition.y, waves_uniforms.amplitudeSum))

\* C29, the extent of the failure: with at least one wave the height and the
\* normalised height are in range; with no wave the height 0 is in [-0, +0]
\* and the normalised height is 0 / 0.
C29_InRangeUnlessNoWaves ==
    stage = "vertex" =>
        /\ HeightInRange(vout.worldPosition.y)
        /\ IF WaveCount >= 1
           THEN InUnitInterval(normalized_height(vout.worldPosition.y,
                                                 waves_uniforms.amplitudeSum))
           ELSE normalized_height(vout.worldPosition.y, waves_uniforms.amplitudeSum) = NaN

(***************************************************************************)
(* Claims about the start of the page (Spec).                              *)
(***************************************************************************)
\* main has thrown, at the adapter check or at the image load.
MainThrew == mainPc \in {"Could not retrieve a WebGPU adapter.", "failed"}

\* With no adapter, main has thrown its message and has created no buffer;
\* after a throw no frame is requested or run; a frame is requested or run
\* only when main has passed all its awaits.
C30_NothingBeforeStart ==
    /\ mainPc = "Could not retrieve a WebGPU adapter." =>
           uniformBuffer = <<>> /\ wavesParametersBuffer = <<>>
    /\ MainThrew =>
           rafPending = 0 /\ frame = 0 /\ drawPc = "idle" /\ queueLog = <<>> /\ controls = <<>>
    /\ (rafPending > 0 \/ frame > 0 \/ drawPc # "idle") => mainPc = "running"
    /\ mainPc \in {"load", "adapter"} => uniformBuffer = <<>>

\* main goes through its awaits in order: the adapter, the device and its
\* resources, the image; only then the first frame is requested; once main
\* has thrown, nothing of the page runs.
C30_StartInOrder ==
    /\ mainPc' # mainPc =>
           \/ mainPc = "load" /\ mainPc' \in {"adapter", "Could not retrieve a WebGPU adapter."}
           \/ mainPc = "adapter" /\ mainPc' = "resources"
           \/ mainPc = "resources" /\ mainPc' \in {"image", "failed"}
           \/ mainPc = "image" /\ mainPc' = "running" /\ rafPending' = 1
    /\ MainThrew => UNCHANGED vars

\* C30: without an adapter main throws "Could not retrieve a WebGPU adapter."
\* before any device, buffer or pipeline is created and no animation frame
\* is ever requested; the first frame is requested only after the adapter,
\* the device and the image load have completed.
C30_AdapterFailureStopsMain == [](C30_NothingBeforeStart) /\ [][C30_StartInOrder]_vars

\* main has thrown at the adapter check.
C30_Witness ==
    /\ mainPc = "Could not retrieve a WebGPU adapter."
    /\ uniformBuffer = <<>>
    /\ rafPending = 0

====
